---- MODULE Spec2Model ----
(***************************************************************************)
(* NOVA Music API (backend/main.py): the resolution cache, the per-id lock *)
(* registry, the singleflight coordinator get_or_cache_audio_url, the      *)
(* streaming entry points and the priority thread pool.                    *)
(*                                                                         *)
(* Python threads interleave between bytecodes, so every handler is cut    *)
(* into steps at the places where another thread can observe or change the *)
(* shared dictionaries; a program counter value is named after the source  *)
(* line the thread is about to execute (g259 = main.py line 259).          *)
(***************************************************************************)
EXTENDS Integers, Sequences, FiniteSets, TLC

\* ------------------------------------------------------------------ bounds
NThreads == 2
NIds == 1
MaxTicks == 3
NWorkers == 2
NTaskIds == 2
MaxTasks == 3
MaxCounted == 2
MaxOtherIds == 101
NSubmitters == 2
MaxTokens == 3
MaxDigits == 2
MaxParams == 2
MaxChunks == 2

\* ------------------------------------------------------- program constants
LOCK_TIMEOUT == 5
STALE_AFTER == 30
FAILURE_TTL == 900
DEFAULT_HORIZON == 3600
AUDIO_URL_TTL == 21600
VIDEO_INFO_TTL == 7200
FALLBACK_HORIZON == 3600
LOCK_CEILING == 100

Threads == 1..NThreads
VideoIds == 1..NIds
\* One TimedLock object per registry slot plus one per thread that can still
\* hold a reference to a handle that left the registry.
Handles == 1..(NThreads + NIds)
\* audio_url_cache is keyed by video_id and, for audio_fallback, by
\* f"{video_id}_fallback".
FallbackKey(v) == v + NIds
CacheKeys == 1..(2 * NIds)

None == -1

\* The characters of a query value: the digits 0..9 and a letter
Digits == 0..9
Letter == 10

\* A resolved URL: its identity and its query, the key=value pairs in the
\* order of the URL. urlparse(None) has the empty query.
\* Header values: a header that is not there, the Range of a request, the
\* Content-Range of a response
NoHeader == "absent"
Ranges == {NoHeader, "bytes=0-99"}

NoneUrl == [name |-> "None", query |-> <<>>]
U1 == [name |-> "u1", query |-> <<[key |-> "expire", value |-> <<3, 6>>]>>]
U2 == [name |-> "u2", query |-> <<[key |-> "itag", value |-> <<Letter>>]>>]

\* class TaskPriority(IntEnum), lines 321-326: lower number, higher priority
CRITICAL == 1
HIGH == 2
MEDIUM == 3
LOW == 4
BACKGROUND == 5
TaskPriority == {CRITICAL, HIGH, MEDIUM, LOW, BACKGROUND}
\* The priorities the model's callers submit with
SubmittedPriorities == {CRITICAL, MEDIUM, LOW}

Workers == 1..NWorkers
Submitters == 1..NSubmitters
TaskIds == 1..NTaskIds
NoTask == [seq |-> 0, priority |-> 0, task_id |-> 0, created_at |-> 0]

\* The clock advances in steps that cross the program's time thresholds one
\* after the other: the lock timeout, the staleness threshold, the default
\* expiry horizon (and with it the failure TTL), the URL cache's TTL.
TickSteps ==
    <<LOCK_TIMEOUT, STALE_AFTER + 1, DEFAULT_HORIZON, AUDIO_URL_TTL>>

VARIABLES
    now,                     \* time.time(), in seconds
    ticks,                   \* number of clock steps taken (bounded)
    rlock_has_count,         \* the interpreter's threading.RLock has a _count attribute
    lifespan,                \* the lifespan handler: where it is, and what its shutdown has done
    prefetch,                \* the prefetch request being served: its position and locals
    parsed,                  \* a call of parse_expire_from_url: its position, argument and outcome
    extract_info_calls,      \* id -> calls of ydl.extract_info made at line 223 (counted up to MaxCounted)
    audio_url_cache,         \* TTLCache: key -> entry
    audio_url_failure_cache, \* TTLCache: id -> time its entry expires (0: absent)
    video_info_cache,        \* TTLCache: id -> the descriptor extract_info returned
    audio_url_locks,         \* dict: id -> handle (0: absent)
    locks,                   \* the TimedLock objects
    other_locks,             \* number of entries of audio_url_locks for ids outside VideoIds
    op,                      \* per thread: the entry point it is serving
    pc,                      \* per thread: the line it is about to execute
    vid,                     \* per thread: video_id
    lock,                    \* per thread: the local variable lock (0: none)
    deadline,                \* per thread: when lock.acquire(timeout=5) gives up
    to_remove,               \* per thread: cleanup_locks' to_remove
    info,                    \* per thread: the info extract_video_info_fast returned
    ret,                     \* per thread: what the call returned
    request,                 \* per thread: the Range header of request (get_yt_audio)
    headers,                 \* per thread: the local variable headers of get_yt_audio
    response,                \* per thread: the local variable response of get_yt_audio
    work_queue,              \* ThreadPoolExecutor._work_queue of priority_pool
    worker,                  \* per pool worker: its position and its task
    stats,                   \* PriorityThreadPool.stats: priority -> count
    running_tasks,           \* PriorityThreadPool.running_tasks: task_id -> future (0: absent)
    submitter,               \* per caller of submit: its position, its task, the count it read
    task_lock,               \* PriorityThreadPool.task_lock: the caller inside `with` (0: free)
    reply,                   \* what get_task_statistics got from get_stats and reports
    submitted,               \* number of PriorityTask objects created (bounded)
    exec_log,                \* the tasks logged at line 378, in order
    raised_tasks             \* the tasks whose func raised (line 381): their future holds the exception

\* a token of the query string: a sequence of characters, a blank or the one
\* character of an identifier
Blank == 0
IdChars == TaskIds
Tokens == {<<Blank>>} \cup {<<Blank, c, Blank>> : c \in IdChars}
Requests == UNION {[1..n -> Tokens] : n \in 0..MaxTokens}
PrefetchCaller == 1
QueryValues == UNION {[1..n -> {3, 6, Letter}] : n \in 0..MaxDigits}
QueryParams == [key : {"expire", "itag"}, value : QueryValues]
Queries == UNION {[1..n -> QueryParams] : n \in 0..MaxParams}
ParsedUrls == {NoneUrl} \cup {[name |-> "u", query |-> q] : q \in Queries}
NoParse == [state |-> "idle", url |-> NoneUrl, time |-> 0, exc |-> "", value |-> 0]
NoPrefetch ==
    [state |-> "idle", video_ids |-> <<>>, video_id_list |-> <<>>, priority |-> 0,
     i |-> 1, base |-> 0, error |-> FALSE, ret |-> <<>>]

vars ==
    <<now, ticks, rlock_has_count, lifespan, prefetch, parsed, extract_info_calls, audio_url_cache, audio_url_failure_cache,
      video_info_cache, audio_url_locks, locks, other_locks, op, pc, vid, lock, deadline,
      to_remove, info, ret, request, headers, response, work_queue, worker, stats, running_tasks, submitter,
      task_lock, reply, submitted, exec_log, raised_tasks>>

\* ------------------------------------------------------------ cache store
NoEntry == [fmt |-> "absent", url |-> NoneUrl, expire |-> 0, ctype |-> "", expires |-> 0]

TupleEntry(url, expire, ctype, t) ==
    [fmt |-> "tuple", url |-> url, expire |-> expire, ctype |-> ctype,
     expires |-> t + AUDIO_URL_TTL]

\* cachetools.TTLCache.__contains__: the key is linked and timer() < link.expires
InCache(cache, k, t) == cache[k].fmt # "absent" /\ t < cache[k].expires

InFailureCache(fc, v, t) == t < fc[v]

\* An expired TTLCache item cannot be observed by any operation (in, [], del
\* all treat it as missing), so it is dropped as soon as the clock passes it.
ExpireItems(cache, t) ==
    [k \in DOMAIN cache |-> IF InCache(cache, k, t) THEN cache[k] ELSE NoEntry]

ExpireFailures(fc, t) ==
    [v \in DOMAIN fc |-> IF InFailureCache(fc, v, t) THEN fc[v] ELSE 0]

\* The descriptor ydl.extract_info returns, as far as the program reads it.
NoInfo == [fmt |-> "absent", kind |-> "none", url |-> NoneUrl, ctype |-> "None", expires |-> 0]

InfoEntry(a, t) ==
    [fmt |-> "info", kind |-> a.kind, url |-> a.url, ctype |-> a.ctype,
     expires |-> t + VIDEO_INFO_TTL]

\* The dict audio_fallback stores under the fallback key, line 1255
DictEntry(url, t) ==
    [fmt |-> "dict", url |-> url, expire |-> t + FALLBACK_HORIZON,
     ctype |-> "audio/mp4", expires |-> t + AUDIO_URL_TTL]

\* NotExpired as it would be with <= for <
NotExpired_Inclusive(expire_timestamp, t) == t <= expire_timestamp

\* time.time() < expire_timestamp: lines 261, 891, 1221 and 1227
NotExpired(expire_timestamp, t) == t < expire_timestamp

\* parse_qs(query)[key]: the values of key in the order of the query; a
\* pair with a blank value is not kept (keep_blank_values=False)
RECURSIVE parse_qs(_, _)
parse_qs(query, key) ==
    IF query = <<>> THEN <<>>
    ELSE (IF Head(query).key = key /\ Head(query).value # <<>>
          THEN <<Head(query).value>> ELSE <<>>) \o parse_qs(Tail(query), key)

RECURSIVE Decimal(_)
Decimal(v) == IF v = <<>> THEN 0 ELSE 10 * Decimal(SubSeq(v, 1, Len(v) - 1)) + v[Len(v)]

\* int(str): the number the digits write, ValueError for anything else
int(v) ==
    IF v # <<>> /\ \A j \in DOMAIN v : v[j] \in Digits
    THEN [exc |-> "", value |-> Decimal(v)]
    ELSE [exc |-> "ValueError", value |-> 0]

\* lines 122-126, the body of the try
parse_expire_try(url, t) ==
    LET values == parse_qs(url.query, "expire")
    IN IF values # <<>> THEN int(values[1])
       ELSE [exc |-> "", value |-> t + DEFAULT_HORIZON]

\* Catches as it would be if the handler caught nothing
Catches_Nothing(exc) == FALSE

\* line 127, except Exception: catches every exception the body can raise
Catches(exc) == exc \in {"ValueError", "TypeError", "AttributeError", "KeyError"}

\* parse_expire_from_url, lines 120-129: what the call returns or raises
parse_expire_outcome(url, t) ==
    LET body == parse_expire_try(url, t)
    IN IF body.exc # "" /\ Catches(body.exc)
       THEN [exc |-> "", value |-> t + DEFAULT_HORIZON]
       ELSE body

parse_expire_from_url(url, t) == parse_expire_outcome(url, t).value

\* ------------------------------------------------------------- TimedLock
FreshLock == [owner |-> 0, acquire_time |-> None]

\* TimedLock.locked on an interpreter whose RLock has _count
locked(h) == locks[h].owner # 0

Referenced(h, reg, refs) ==
    (\E v \in VideoIds : reg[v] = h) \/ (\E t \in Threads : refs[t] = h)

\* A TimedLock nobody refers to any more is garbage: its slot is reused.
Collect(lk, reg, refs) ==
    [h \in Handles |-> IF Referenced(h, reg, refs) THEN lk[h] ELSE FreshLock]

NewHandle ==
    CHOOSE h \in Handles :
        /\ ~Referenced(h, audio_url_locks, lock)
        /\ \A g \in Handles : ~Referenced(g, audio_url_locks, lock) => h <= g

\* -------------------------------------------------------- return values
\* status, the headers and body are those of the HTTP response when the
\* call is an endpoint's; disposition is the id in the filename of
\* Content-Disposition (0: no such header)
NoRet ==
    [site |-> 0, exc |-> "", url |-> NoneUrl, expire |-> None, ctype |-> "None",
     status |-> 0, content_range |-> NoHeader, content_length |-> NoHeader,
     accept_ranges |-> NoHeader, disposition |-> 0, body |-> "none"]

\* return None, None, None at line `site`
Failure(site) == [NoRet EXCEPT !.site = site]

\* an exception that leaves the function from line `site`
Raised(site, exc) == [NoRet EXCEPT !.site = site, !.exc = exc]

Triple(site, url, expire, ctype) ==
    [NoRet EXCEPT !.site = site, !.url = url, !.expire = expire, !.ctype = ctype]

\* return {"error": ...} at line `site` of an endpoint: the route has no
\* status_code and FastAPI sends the dict as a JSON body with status 200
ErrorPayload(site) == [NoRet EXCEPT !.site = site, !.status = 200, !.body = "json"]

\* return RedirectResponse(url=...) at line `site`: status 307
Redirect(site, url, expire, ctype) ==
    [Triple(site, url, expire, ctype) EXCEPT !.status = 307, !.body = "redirect"]

\* conn is the upstream connection the response holds, chunks the chunks of
\* the body not yet read from it, client whether the client still listens
NoResponse ==
    [kind |-> "none", status |-> 0, content_range |-> NoHeader, content_length |-> NoHeader,
     accept_ranges |-> NoHeader, conn |-> "none", chunks |-> 0, client |-> "connected"]

Value(r) == <<r.exc, r.url, r.expire, r.ctype>>

TypeOK ==
    /\ now \in Nat
    /\ ticks \in 0..MaxTicks
    /\ rlock_has_count \in BOOLEAN
    /\ \A v \in VideoIds : audio_url_locks[v] \in 0..(NThreads + NIds)
    /\ \A h \in Handles : locks[h].owner \in 0..NThreads
    /\ \A t \in Threads : lock[t] \in 0..(NThreads + NIds)

\* lifespan at its yield (line 54): the application serves, the three pools
\* run, no shutdown step has been taken
Serving ==
    [state |-> "yield", priority_pool |-> "running", prefetch_thread_pool |-> "running",
     download_thread_pool |-> "running", swept |-> FALSE, exc |-> "none"]

StoreInit ==
    /\ now = 0
    /\ ticks = 0
    /\ rlock_has_count \in BOOLEAN
    /\ extract_info_calls = [v \in VideoIds |-> 0]
    /\ audio_url_cache = [k \in CacheKeys |-> NoEntry]
    /\ audio_url_failure_cache = [v \in VideoIds |-> 0]
    /\ video_info_cache = [v \in VideoIds |-> NoInfo]
    /\ audio_url_locks = [v \in VideoIds |-> 0]
    /\ locks = [h \in Handles |-> FreshLock]
    /\ other_locks = 0
    /\ prefetch = NoPrefetch
    /\ lifespan = Serving
    /\ parsed = NoParse

ThreadsInit ==
    /\ op = [t \in Threads |-> "none"]
    /\ pc = [t \in Threads |-> "idle"]
    /\ vid = [t \in Threads |-> 1]
    /\ lock = [t \in Threads |-> 0]
    /\ deadline = [t \in Threads |-> 0]
    /\ to_remove = [t \in Threads |-> {}]
    /\ info = [t \in Threads |-> NoInfo]
    /\ ret = [t \in Threads |-> NoRet]
    /\ request = [t \in Threads |-> NoHeader]
    /\ headers = [t \in Threads |-> [Range |-> NoHeader]]
    /\ response = [t \in Threads |-> NoResponse]

\* PriorityThreadPool.__init__, lines 348-360
PoolInit ==
    /\ work_queue = <<>>
    /\ worker = [w \in Workers |-> [state |-> "idle", task |-> NoTask]]
    /\ stats = [p \in TaskPriority |-> 0]
    /\ running_tasks = [i \in TaskIds |-> 0]
    /\ submitter = [s \in Submitters |-> [state |-> "idle", task |-> NoTask, count |-> 0]]
    /\ task_lock = 0
    /\ reply = [state |-> "none", task_statistics |-> [p \in TaskPriority |-> 0],
                total_tasks |-> 0]
    /\ submitted = 0
    /\ exec_log = <<>>
    /\ raised_tasks = {}

Init == StoreInit /\ ThreadsInit /\ PoolInit

http == <<request, headers, response>>
env == <<now, ticks, rlock_has_count, lifespan, prefetch, parsed, extract_info_calls, http>>
caches == <<audio_url_cache, audio_url_failure_cache, video_info_cache>>
registry == <<audio_url_locks, locks, other_locks>>
locals == <<op, vid, lock, deadline, to_remove, info>>
pool == <<work_queue, worker, stats, running_tasks, submitter, task_lock, reply,
          submitted, exec_log, raised_tasks>>

\* A thread waits for a lock another thread holds (line 247), for yt-dlp
\* (lines 223 and 276) or for the upstream server (line 984).
Blocked(t) ==
    \/ pc[t] \in {"g276", "x223", "y984", "d1048", "d1123"}
    \/ pc[t] = "g247" /\ locks[lock[t]].owner # 0

\* The passage of time. The steps of the program take no time next to its
\* timeouts: the clock moves when every thread is idle or waiting.
Tick ==
    /\ \A t \in Threads : pc[t] = "idle" \/ Blocked(t)
    /\ ticks < MaxTicks
    /\ ticks < Len(TickSteps)
    /\ ticks' = ticks + 1
    /\ now' = now + TickSteps[ticks + 1]
    /\ audio_url_cache' = ExpireItems(audio_url_cache, now')
    /\ audio_url_failure_cache' = ExpireFailures(audio_url_failure_cache, now')
    /\ video_info_cache' =
          [v \in VideoIds |->
              IF InCache(video_info_cache, v, now') THEN video_info_cache[v] ELSE NoInfo]
    /\ UNCHANGED <<rlock_has_count, lifespan, prefetch, parsed, extract_info_calls, http, registry, pc, locals, ret, pool>>

\* Where a call serving entry point o goes on when the function it is in
\* returns: download_audio goes on at line 1041 with what
\* get_or_cache_audio_url returned (line 1039), the others are finished.
ReturnTo(o) == IF o = "download" THEN "d1041" ELSE "done"

\* The function returns (or raises) without holding a lock.
Leave(t, r) ==
    /\ pc' = [pc EXCEPT ![t] = ReturnTo(op[t])]
    /\ ret' = [ret EXCEPT ![t] = r]

\* ------------------------------------------- get_or_cache_audio_url, 234-256
\* lines 236-240: if video_id in audio_url_failure_cache: return None, None,
\* None; then cleanup_locks() when random.random() < 0.04
Enter(t, v, sweep, o) ==
    /\ pc[t] = "idle"
    /\ op' = [op EXCEPT ![t] = o]
    /\ vid' = [vid EXCEPT ![t] = v]
    /\ IF InFailureCache(audio_url_failure_cache, v, now)
       THEN /\ pc' = [pc EXCEPT ![t] = ReturnTo(o)]
            /\ ret' = [ret EXCEPT ![t] = Failure(237)]
       ELSE /\ pc' = [pc EXCEPT ![t] = IF sweep THEN "c136" ELSE "g244"]
            /\ UNCHANGED ret
    /\ UNCHANGED <<env, pool, caches, registry, lock, deadline, to_remove, info>>

\* get_or_cache_audio_url called from a pool thread (background_prefetch)
Call(t, v, sweep) == Enter(t, v, sweep, "resolve")

\* line 1039 of download_audio: audio_url, expire_timestamp, content_type =
\* get_or_cache_audio_url(video_id)
DownloadCall(t, v, sweep) == Enter(t, v, sweep, "download")

\* --------------------------------------------------- cleanup_locks, 132-155
\* lines 133-143: the scan that fills to_remove. lock.locked() reads
\* self._lock._count: the pure-Python RLock has that attribute, the C RLock
\* (_thread.RLock) has not and the read raises AttributeError. A held lock
\* whose _acquire_time is None makes line 141 raise TypeError.
ScanRaises ==
    IF rlock_has_count
    THEN \E v \in VideoIds :
            /\ audio_url_locks[v] # 0
            /\ locked(audio_url_locks[v])
            /\ locks[audio_url_locks[v]].acquire_time = None
    ELSE other_locks > 0 \/ \E v \in VideoIds : audio_url_locks[v] # 0

ScanResult ==
    {v \in VideoIds :
        /\ audio_url_locks[v] # 0
        /\ \/ ~locked(audio_url_locks[v])
           \/ now - locks[audio_url_locks[v]].acquire_time > STALE_AFTER}

cleanup_scan(t) ==
    /\ pc[t] = "c136"
    /\ IF ScanRaises
       THEN /\ Leave(t, Raised(138, IF rlock_has_count THEN "TypeError" ELSE "AttributeError"))
            /\ UNCHANGED to_remove
       ELSE /\ pc' = [pc EXCEPT ![t] = "c145"]
            /\ to_remove' = [to_remove EXCEPT ![t] = ScanResult]
            /\ UNCHANGED ret
    /\ UNCHANGED <<env, pool, caches, registry, vid, lock, deadline, op, info>>

\* lines 145-152, one video_id of to_remove. The release at line 149 is made
\* by a thread that does not own the RLock: RLock.release raises RuntimeError
\* before it changes anything, and the bare except swallows it. Line 152 is
\* outside the try: a key that is gone raises KeyError.
cleanup_remove(t, v) ==
    /\ pc[t] = "c145"
    /\ v \in to_remove[t]
    /\ IF audio_url_locks[v] = 0
       THEN /\ Leave(t, Raised(152, "KeyError"))
            /\ to_remove' = [to_remove EXCEPT ![t] = {}]
            /\ UNCHANGED registry
       ELSE /\ audio_url_locks' = [audio_url_locks EXCEPT ![v] = 0]
            /\ locks' = Collect(locks, audio_url_locks', lock)
            /\ UNCHANGED other_locks
            /\ to_remove' = [to_remove EXCEPT ![t] = @ \ {v}]
            /\ UNCHANGED <<pc, ret>>
    /\ UNCHANGED <<env, pool, caches, vid, lock, deadline, op, info>>

\* cleanup_locks returns to line 244. The locks of the other ids are not
\* held: the scan has put them all into to_remove, and by now they are
\* removed.
cleanup_done(t) ==
    /\ pc[t] = "c145"
    /\ to_remove[t] = {}
    /\ pc' = [pc EXCEPT ![t] = "g244"]
    /\ other_locks' = 0
    /\ UNCHANGED <<env, pool, caches, audio_url_locks, locks, locals, ret>>

\* ---------------------------------------------- lifespan, shutdown, 55-86
\* def shutdown(self), line 395: the keyword arguments the method takes
shutdown_keywords == {}

\* lines 56-86, with no request in flight. Line 59 calls
\* priority_pool.shutdown(wait=True); a keyword the method does not take
\* raises TypeError before its body is entered. Any exception of lines 59-81
\* goes to the except of line 82, which logs it, and the finally of line 84
\* logs "shutdown complete". cleanup_locks (line 67) raises as its scan does;
\* with nothing held it removes every handle.
lifespan_shutdown ==
    /\ lifespan.state = "yield"
    /\ \A t \in Threads : pc[t] = "idle"
    /\ IF ~({"wait"} \subseteq shutdown_keywords)
       THEN /\ lifespan' = [lifespan EXCEPT !.state = "complete", !.exc = "TypeError"]
            /\ UNCHANGED <<caches, registry>>
       ELSE IF ScanRaises
       THEN /\ lifespan' = [lifespan EXCEPT !.state = "complete",
                                            !.priority_pool = "shutdown",
                                            !.prefetch_thread_pool = "shutdown",
                                            !.download_thread_pool = "shutdown",
                                            !.exc = IF rlock_has_count THEN "TypeError"
                                                    ELSE "AttributeError"]
            /\ UNCHANGED <<caches, registry>>
       ELSE /\ lifespan' = [lifespan EXCEPT !.state = "complete",
                                            !.priority_pool = "shutdown",
                                            !.prefetch_thread_pool = "shutdown",
                                            !.download_thread_pool = "shutdown",
                                            !.swept = TRUE]
            /\ audio_url_locks' = [v \in VideoIds |->
                                      IF v \in ScanResult THEN 0 ELSE audio_url_locks[v]]
            /\ locks' = Collect(locks, audio_url_locks', lock)
            /\ other_locks' = 0
            /\ audio_url_cache' = [k \in CacheKeys |-> NoEntry]
            /\ video_info_cache' = [v \in VideoIds |-> NoInfo]
            /\ audio_url_failure_cache' = [v \in VideoIds |-> 0]
    /\ UNCHANGED <<now, ticks, rlock_has_count, prefetch, parsed, extract_info_calls, http,
                   pool, pc, locals, ret>>

\* len(audio_url_locks), with `others` entries for ids outside VideoIds
len(reg, others) == Cardinality({v \in VideoIds : reg[v] # 0}) + others

\* force_cleanup_locks, 157-162: audio_url_locks.clear()
force_cleanup_locks(reg) == [v \in VideoIds |-> 0]

\* ------------------------------------------------- TimedLock.acquire, 27-31
\* line 244: lock = audio_url_locks.setdefault(video_id, TimedLock()), and
\* the call of lock.acquire(timeout=5) at line 247 starts waiting.
SetDefault(t) ==
    /\ pc[t] = "g244"
    /\ LET v == vid[t]
           h == IF audio_url_locks[v] # 0 THEN audio_url_locks[v] ELSE NewHandle
       IN /\ audio_url_locks' = [audio_url_locks EXCEPT ![v] = h]
          /\ lock' = [lock EXCEPT ![t] = h]
    /\ UNCHANGED other_locks
    /\ deadline' = [deadline EXCEPT ![t] = now + LOCK_TIMEOUT]
    /\ pc' = [pc EXCEPT ![t] = "g247"]
    /\ UNCHANGED <<env, pool, caches, locks, vid, to_remove, ret, op, info>>

\* line 28: self._lock.acquire(timeout=timeout) succeeds
rlock_acquire(t) ==
    /\ pc[t] = "g247"
    /\ locks[lock[t]].owner = 0
    /\ locks' = [locks EXCEPT ![lock[t]].owner = t]
    /\ deadline' = [deadline EXCEPT ![t] = 0]
    /\ pc' = [pc EXCEPT ![t] = "a30"]
    /\ UNCHANGED <<env, pool, caches, audio_url_locks, other_locks, vid, lock, to_remove, ret, op, info>>

\* line 30: self._acquire_time = time.time()
set_acquire_time(t) ==
    /\ pc[t] = "a30"
    /\ locks' = [locks EXCEPT ![lock[t]].acquire_time = now]
    /\ pc' = [pc EXCEPT ![t] = "g259"]
    /\ UNCHANGED <<env, pool, caches, audio_url_locks, other_locks, locals, ret>>

\* acquire_timeout as it would be if acquire were called without a timeout
acquire_timeout_Never(t) == FALSE /\ UNCHANGED vars

\* line 28 returns False: the timeout has passed and another thread holds the lock
acquire_timeout(t) ==
    /\ pc[t] = "g247"
    /\ locks[lock[t]].owner # 0
    /\ now >= deadline[t]
    /\ deadline' = [deadline EXCEPT ![t] = 0]
    /\ pc' = [pc EXCEPT ![t] = "g251"]
    /\ lock' = [lock EXCEPT ![t] = 0]
    /\ locks' = Collect(locks, audio_url_locks, lock')
    /\ UNCHANGED <<env, pool, caches, audio_url_locks, other_locks, vid, to_remove, ret, op, info>>

\* TimeoutReturn as it would be if the timeout were recorded like a Resolver
\* failure (audio_url_failure_cache[video_id] = True before the return)
TimeoutReturn_NegativeCached(t, reg) ==
    /\ audio_url_locks' =
          IF len(reg, other_locks) > LOCK_CEILING THEN force_cleanup_locks(reg) ELSE reg
    /\ other_locks' = IF len(reg, other_locks) > LOCK_CEILING THEN 0 ELSE other_locks
    /\ lock' = [lock EXCEPT ![t] = 0]
    /\ locks' = Collect(locks, audio_url_locks', lock')
    /\ audio_url_failure_cache' =
          [audio_url_failure_cache EXCEPT ![vid[t]] = now + FAILURE_TTL]
    /\ UNCHANGED <<audio_url_cache, video_info_cache>>
    /\ Leave(t, Failure(256))

\* lines 254-256 after the handle was (or was not) removed: the forced
\* cleanup above the ceiling, then return None, None, None. No cache is
\* written.
TimeoutReturn(t, reg) ==
    /\ audio_url_locks' =
          IF len(reg, other_locks) > LOCK_CEILING THEN force_cleanup_locks(reg) ELSE reg
    /\ other_locks' = IF len(reg, other_locks) > LOCK_CEILING THEN 0 ELSE other_locks
    /\ lock' = [lock EXCEPT ![t] = 0]
    /\ locks' = Collect(locks, audio_url_locks', lock')
    /\ UNCHANGED caches
    /\ Leave(t, Failure(256))

\* line 251: if video_id in audio_url_locks
timeout_check(t) ==
    /\ pc[t] = "g251"
    /\ IF audio_url_locks[vid[t]] # 0
       THEN /\ pc' = [pc EXCEPT ![t] = "g252"]
            /\ UNCHANGED <<caches, registry, lock, ret>>
       ELSE TimeoutReturn(t, audio_url_locks)
    /\ UNCHANGED <<env, pool, vid, deadline, to_remove, op, info>>

\* line 252: del audio_url_locks[video_id]
timeout_del(t) ==
    /\ pc[t] = "g252"
    /\ IF audio_url_locks[vid[t]] = 0
       THEN /\ Leave(t, Raised(252, "KeyError"))
            /\ lock' = [lock EXCEPT ![t] = 0]
            /\ locks' = Collect(locks, audio_url_locks, lock')
            /\ UNCHANGED <<caches, audio_url_locks, other_locks>>
       ELSE TimeoutReturn(t, [audio_url_locks EXCEPT ![vid[t]] = 0])
    /\ UNCHANGED <<env, pool, vid, deadline, to_remove, op, info>>

\* A whole call get_or_cache_audio_url(id) for an id outside VideoIds that
\* has not been asked for before, made while no other call is under way:
\* nothing is cached for it, the sweep of line 240 is drawn or not, line 244
\* registers a new handle, the call takes it without waiting, resolves and
\* releases it (lines 258-313). The handle stays in audio_url_locks. A drawn
\* sweep finds no lock held: it removes every handle (or raises at the first
\* one, when the RLock has no _count, and the call ends there).
OtherCall(sweep) ==
    /\ \A t \in Threads : pc[t] = "idle"
    /\ other_locks < MaxOtherIds
    /\ ~(sweep /\ ScanRaises)
    /\ IF sweep
       THEN /\ audio_url_locks' = [v \in VideoIds |-> 0]
            /\ other_locks' = 1
       ELSE /\ other_locks' = other_locks + 1
            /\ UNCHANGED audio_url_locks
    /\ locks' = Collect(locks, audio_url_locks', lock)
    /\ UNCHANGED <<env, pool, caches, pc, locals, ret>>

\* ------------------------------------------ get_or_cache_audio_url, 258-313
\* LeaveLocked as it would be if the except branch of line 307 returned
\* outside the try/finally: the lock is not released on that exit.
LeaveLocked_ExceptSkipsFinally(t, r) ==
    /\ pc' = [pc EXCEPT ![t] = IF r.site = 310 THEN ReturnTo(op[t]) ELSE "r34"]
    /\ ret' = [ret EXCEPT ![t] = r]

\* LeaveLocked as it would be if the cached entry were returned (line 262)
\* without the finally of line 311: the lock stays with the caller.
LeaveLocked_HitSkipsFinally(t, r) ==
    /\ pc' = [pc EXCEPT ![t] = IF r.site = 262 THEN ReturnTo(op[t]) ELSE "r34"]
    /\ ret' = [ret EXCEPT ![t] = r]

\* A return or an exception inside the try of line 258 runs the finally of
\* line 311 before the function is left.
LeaveLocked(t, r) ==
    /\ pc' = [pc EXCEPT ![t] = "r34"]
    /\ ret' = [ret EXCEPT ![t] = r]

\* line 259: if video_id in audio_url_cache
cache_check(t) ==
    /\ pc[t] = "g259"
    /\ pc' = [pc EXCEPT ![t] =
                 IF InCache(audio_url_cache, vid[t], now) THEN "g260" ELSE "g276"]
    /\ UNCHANGED <<env, pool, caches, registry, locals, ret>>

\* lines 260-262: read the entry (KeyError when it is gone) and compare
\* time.time() with expire_timestamp
cache_read(t) ==
    /\ pc[t] = "g260"
    /\ LET e == audio_url_cache[vid[t]]
       IN IF ~InCache(audio_url_cache, vid[t], now)
          THEN LeaveLocked(t, Raised(260, "KeyError"))
          ELSE IF NotExpired(e.expire, now)
               THEN LeaveLocked(t, Triple(262, e.url, e.expire, e.ctype))
               ELSE pc' = [pc EXCEPT ![t] = "g264"] /\ UNCHANGED ret
    /\ UNCHANGED <<env, pool, caches, registry, locals>>

\* line 264: del audio_url_cache[video_id]
cache_del(t) ==
    /\ pc[t] = "g264"
    /\ IF ~InCache(audio_url_cache, vid[t], now)
       THEN LeaveLocked(t, Raised(264, "KeyError")) /\ UNCHANGED audio_url_cache
       ELSE /\ audio_url_cache' = [audio_url_cache EXCEPT ![vid[t]] = NoEntry]
            /\ pc' = [pc EXCEPT ![t] = "g276"]
            /\ UNCHANGED ret
    /\ UNCHANGED <<env, pool, audio_url_failure_cache, video_info_cache, registry, locals>>

\* What ydl.extract_info (and, for a direct url, the HEAD request of line
\* 283) can answer:
\*   raise      extract_info raises                      -> line 309
\*   none       info is empty                            -> line 278
\*   direct     'url' in info                            -> line 288
\*   formats    the best format of info['formats'] has a url -> line 305
\*   noformats  info['formats'] is empty                 -> line 299
\*   nourl      the best format has no 'url' key         -> line 305, url None
ResolverAnswers ==
    { [kind |-> "raise", url |-> NoneUrl, ctype |-> "None"],
      [kind |-> "none", url |-> NoneUrl, ctype |-> "None"],
      [kind |-> "noformats", url |-> NoneUrl, ctype |-> "None"],
      [kind |-> "direct", url |-> U1, ctype |-> "audio/mpeg"],
      [kind |-> "formats", url |-> U2, ctype |-> "audio/webm"],
      [kind |-> "nourl", url |-> NoneUrl, ctype |-> "audio/mpeg"] }

FailureSite(kind) ==
    CASE kind = "none" -> 279
      [] kind = "noformats" -> 300
      [] OTHER -> 310

\* lines 275-310: the Resolver call returns and its result is stored
resolver_return(t, a) ==
    /\ pc[t] = "g276"
    /\ IF a.kind \in {"raise", "none", "noformats"}
       THEN /\ audio_url_failure_cache' =
                  [audio_url_failure_cache EXCEPT ![vid[t]] = now + FAILURE_TTL]
            /\ UNCHANGED <<audio_url_cache, video_info_cache>>
            /\ LeaveLocked(t, Failure(FailureSite(a.kind)))
       ELSE LET expire_timestamp == parse_expire_from_url(a.url, now)
            IN /\ audio_url_cache' =
                     [audio_url_cache EXCEPT ![vid[t]] =
                         TupleEntry(a.url, expire_timestamp, a.ctype, now)]
               /\ UNCHANGED <<audio_url_failure_cache, video_info_cache>>
               /\ LeaveLocked(t, Triple(IF a.kind = "direct" THEN 289 ELSE 306,
                                        a.url, expire_timestamp, a.ctype))
    /\ UNCHANGED <<env, pool, registry, locals>>

\* ------------------------------------------------ TimedLock.release, 33-35
\* line 34: self._lock.release(), by the owner
rlock_release(t) ==
    /\ pc[t] = "r34"
    /\ locks' = [locks EXCEPT ![lock[t]].owner = 0]
    /\ pc' = [pc EXCEPT ![t] = "r35"]
    /\ UNCHANGED <<env, pool, caches, audio_url_locks, other_locks, locals, ret>>

\* line 35: self._acquire_time = None, and the function is left
clear_acquire_time(t) ==
    /\ pc[t] = "r35"
    /\ lock' = [lock EXCEPT ![t] = 0]
    /\ locks' = Collect([locks EXCEPT ![lock[t]].acquire_time = None],
                        audio_url_locks, lock')
    /\ pc' = [pc EXCEPT ![t] = ReturnTo(op[t])]
    /\ UNCHANGED <<env, pool, caches, audio_url_locks, other_locks, vid, deadline, to_remove, ret, op, info>>

\* The caller takes the result; the thread serves the next request.
Finish(t) ==
    /\ pc[t] = "done"
    /\ pc' = [pc EXCEPT ![t] = "idle"]
    /\ op' = [op EXCEPT ![t] = "none"]
    /\ ret' = [ret EXCEPT ![t] = NoRet]
    /\ request' = [request EXCEPT ![t] = NoHeader]
    /\ headers' = [headers EXCEPT ![t] = [Range |-> NoHeader]]
    /\ response' = [response EXCEPT ![t] = NoResponse]
    /\ UNCHANGED <<now, ticks, rlock_has_count, lifespan, prefetch, parsed, extract_info_calls, pool, caches, registry,
                   vid, lock, deadline, to_remove, info>>

\* ---------------------------------------- extract_video_info_fast, 165-231
\* Where the caller continues with the info, and what it answers without.
AfterInfo(t) == IF op[t] = "stream" THEN "y915" ELSE "f1242"
NoInfoSite(t) == IF op[t] = "stream" THEN 912 ELSE 1239
\* An exception in the callers' inner try block is caught at lines 959 and
\* 1266 and answered with an error body
InnerExcept(t) == IF op[t] = "stream" THEN 961 ELSE 1268
\* An exception outside it is caught at lines 1025 and 1270
OuterExcept(t) == IF op[t] = "stream" THEN 1027 ELSE 1272

\* OuterHandler as it would be without the except of lines 1025 and 1270
OuterHandler_Reraises(t, site, exc) == Raised(site, exc)

\* lines 1025-1027 and 1270-1272, except Exception: an exception raised at
\* line `site` of the handler's try is answered with return {"error": ...}
OuterHandler(t, site, exc) ==
    IF Catches(exc) THEN ErrorPayload(OuterExcept(t)) ELSE Raised(site, exc)

\* The calls of ydl.extract_info(url, download=False) at line 223, counted
\* per id as a test double for yt-dlp would count them
Counted(calls, v) ==
    [calls EXCEPT ![v] = IF @ < MaxCounted THEN @ + 1 ELSE @]

\* info_check as it would be if video_info_cache were not looked at
info_check_AlwaysExtracts(t) ==
    /\ pc[t] = "x170"
    /\ pc' = [pc EXCEPT ![t] = "x223"]
    /\ extract_info_calls' = Counted(extract_info_calls, vid[t])
    /\ UNCHANGED <<now, ticks, rlock_has_count, lifespan, prefetch, parsed, http, pool, caches, registry, locals, ret>>

\* line 170: if video_id in video_info_cache; otherwise lines 175-223 build
\* the options and call ydl.extract_info
info_check(t) ==
    /\ pc[t] = "x170"
    /\ IF InCache(video_info_cache, vid[t], now)
       THEN /\ pc' = [pc EXCEPT ![t] = "x172"]
            /\ UNCHANGED extract_info_calls
       ELSE /\ pc' = [pc EXCEPT ![t] = "x223"]
            /\ extract_info_calls' = Counted(extract_info_calls, vid[t])
    /\ UNCHANGED <<now, ticks, rlock_has_count, lifespan, prefetch, parsed, http, pool, caches, registry, locals, ret>>

\* line 172: return video_info_cache[video_id]
info_read(t) ==
    /\ pc[t] = "x172"
    /\ IF InCache(video_info_cache, vid[t], now)
       THEN /\ info' = [info EXCEPT ![t] = [video_info_cache[vid[t]] EXCEPT !.expires = 0]]
            /\ pc' = [pc EXCEPT ![t] = AfterInfo(t)]
            /\ UNCHANGED ret
       ELSE /\ Leave(t, ErrorPayload(InnerExcept(t)))
            /\ UNCHANGED info
    /\ UNCHANGED <<env, pool, caches, registry, op, vid, lock, deadline, to_remove>>

\* lines 221-231: ydl.extract_info returns. An exception is caught at line
\* 229 and an empty info falls out of the with block: both return None.
info_return(t, a) ==
    /\ pc[t] = "x223"
    /\ IF a.kind \in {"raise", "none"}
       THEN /\ Leave(t, ErrorPayload(NoInfoSite(t)))
            /\ UNCHANGED <<video_info_cache, info>>
       ELSE /\ video_info_cache' = [video_info_cache EXCEPT ![vid[t]] = InfoEntry(a, now)]
            /\ info' = [info EXCEPT ![t] = [InfoEntry(a, now) EXCEPT !.expires = 0]]
            /\ pc' = [pc EXCEPT ![t] = AfterInfo(t)]
            /\ UNCHANGED ret
    /\ UNCHANGED <<env, pool, audio_url_cache, audio_url_failure_cache, registry, op, vid,
                   lock, deadline, to_remove>>

\* ------------------------------------------------- get_yt_audio, 881-1027
\* line 888: if video_id in audio_url_cache
StreamCall(t, v, range) ==
    /\ pc[t] = "idle"
    /\ op' = [op EXCEPT ![t] = "stream"]
    /\ vid' = [vid EXCEPT ![t] = v]
    /\ request' = [request EXCEPT ![t] = range]
    /\ pc' = [pc EXCEPT ![t] =
                 IF InCache(audio_url_cache, v, now) THEN "y889" ELSE "x170"]
    /\ UNCHANGED <<now, ticks, rlock_has_count, lifespan, prefetch, parsed, extract_info_calls, headers, response,
                   pool, caches, registry, lock, deadline, to_remove, info, ret>>

\* UpstreamHeaders as it would be if the request's Range were not copied
UpstreamHeaders_WithoutRange(range) == [Range |-> NoHeader]

\* lines 963-971: the headers of the upstream request. User-Agent, Accept and
\* Accept-Encoding are fixed; Range is the request's when it has one.
UpstreamHeaders(range) == [Range |-> range]

\* lines 889-891: read the entry and compare time.time() with expire_timestamp
stream_read(t) ==
    /\ pc[t] = "y889"
    /\ LET e == audio_url_cache[vid[t]]
       IN IF ~InCache(audio_url_cache, vid[t], now)
          THEN Leave(t, OuterHandler(t, 889, "KeyError")) /\ UNCHANGED headers
          ELSE IF NotExpired(e.expire, now)
               THEN /\ pc' = [pc EXCEPT ![t] = "y984"]
                    /\ ret' = [ret EXCEPT ![t] = Triple(892, e.url, e.expire, e.ctype)]
                    /\ headers' = [headers EXCEPT ![t] = UpstreamHeaders(request[t])]
               ELSE pc' = [pc EXCEPT ![t] = "y895"] /\ UNCHANGED <<ret, headers>>
    /\ UNCHANGED <<now, ticks, rlock_has_count, lifespan, prefetch, parsed, extract_info_calls, request, response,
                   pool, caches, registry, locals>>

\* line 895: del audio_url_cache[video_id]
stream_del(t) ==
    /\ pc[t] = "y895"
    /\ IF ~InCache(audio_url_cache, vid[t], now)
       THEN Leave(t, OuterHandler(t, 895, "KeyError")) /\ UNCHANGED audio_url_cache
       ELSE /\ audio_url_cache' = [audio_url_cache EXCEPT ![vid[t]] = NoEntry]
            /\ pc' = [pc EXCEPT ![t] = "x170"]
            /\ UNCHANGED ret
    /\ UNCHANGED <<env, pool, audio_url_failure_cache, video_info_cache, registry, locals>>

\* lines 915-955: choose the URL from the info and cache it
stream_select(t) ==
    /\ pc[t] = "y915"
    /\ LET i == info[t]
           expire_timestamp == parse_expire_from_url(i.url, now)
           content_type == IF i.kind = "direct" THEN "audio/mpeg" ELSE i.ctype
       IN IF i.kind = "noformats"
          THEN Leave(t, ErrorPayload(917)) /\ UNCHANGED <<audio_url_cache, headers>>
          ELSE IF i.kind = "nourl"
               THEN Leave(t, ErrorPayload(949)) /\ UNCHANGED <<audio_url_cache, headers>>
               ELSE /\ audio_url_cache' =
                          [audio_url_cache EXCEPT ![vid[t]] =
                              TupleEntry(i.url, expire_timestamp, content_type, now)]
                    /\ pc' = [pc EXCEPT ![t] = "y984"]
                    /\ ret' = [ret EXCEPT ![t] =
                                  Triple(955, i.url, expire_timestamp, content_type)]
                    /\ headers' = [headers EXCEPT ![t] = UpstreamHeaders(request[t])]
    /\ info' = [info EXCEPT ![t] = NoInfo]
    /\ UNCHANGED <<now, ticks, rlock_has_count, lifespan, prefetch, parsed, extract_info_calls, request, response,
                   pool, audio_url_failure_cache, video_info_cache, registry, op, vid,
                   lock, deadline, to_remove>>

\* What session.get(audio_url, headers=headers, stream=True, timeout=10) of
\* line 984 can meet: the server answers the whole body (200), the range
\* asked for (206 with its Content-Range) or that the range cannot be
\* satisfied (416); or the connection times out or fails. A server that
\* sends the body in chunks gives no Content-Length; a server says whether
\* it takes ranges (Accept-Ranges: bytes or none) or says nothing.
UpstreamAnswers(h) ==
    {[NoResponse EXCEPT !.kind = "response", !.status = 200, !.content_length = "1000",
                        !.accept_ranges = "bytes"],
     [NoResponse EXCEPT !.kind = "response", !.status = 200, !.accept_ranges = "none"],
     [NoResponse EXCEPT !.kind = "response", !.status = 200, !.content_length = "1000"],
     [NoResponse EXCEPT !.kind = "timeout"],
     [NoResponse EXCEPT !.kind = "error"]}
    \cup (IF h.Range = NoHeader
          THEN {}
          ELSE {[NoResponse EXCEPT !.kind = "response", !.status = 206,
                                  !.content_range = "bytes 0-99/1000",
                                  !.content_length = "100", !.accept_ranges = "bytes"],
                [NoResponse EXCEPT !.kind = "response", !.status = 416,
                                  !.content_range = "bytes */1000"]})

\* lines 984-996: the upstream request returns a response, or raises
\* requests.exceptions.Timeout / RequestException, which are answered with
\* return {"error": ...}
stream_upstream(t, u) ==
    /\ pc[t] = "y984"
    /\ u \in UpstreamAnswers(headers[t])
    /\ IF u.kind = "response"
       THEN /\ response' = [response EXCEPT ![t] =
                                [u EXCEPT !.conn = "open", !.chunks = MaxChunks]]
            /\ pc' = [pc EXCEPT ![t] = "y999"]
            /\ UNCHANGED ret
       ELSE /\ Leave(t, [ErrorPayload(IF u.kind = "timeout" THEN 993 ELSE 996) EXCEPT
                            !.url = ret[t].url, !.expire = ret[t].expire,
                            !.ctype = ret[t].ctype])
            /\ UNCHANGED response
    /\ UNCHANGED <<now, ticks, rlock_has_count, lifespan, prefetch, parsed, extract_info_calls, request, headers,
                   pool, caches, registry, locals>>

\* response_headers as it would be if Content-Length were not forwarded
response_headers_WithoutLength(r, upstream, v) ==
    [r EXCEPT !.disposition = v, !.accept_ranges = "bytes",
              !.content_range = upstream.content_range]

\* lines 999-1013: response_headers has Content-Type (r.ctype),
\* Content-Disposition for video_id and Accept-Ranges: bytes, and takes
\* Content-Length and Content-Range from the upstream response when it has
\* them
response_headers(r, upstream, v) ==
    [r EXCEPT !.disposition = v, !.accept_ranges = "bytes",
              !.content_length = upstream.content_length,
              !.content_range = upstream.content_range]

\* lines 998-1023: the StreamingResponse takes response_headers and
\* status_code=response.status_code
stream_respond(t) ==
    /\ pc[t] = "y999"
    /\ Leave(t, [response_headers(ret[t], response[t], vid[t]) EXCEPT
                    !.site = 1019, !.status = response[t].status, !.body = "stream"])
    /\ UNCHANGED <<env, pool, caches, registry, locals>>

\* ---- the body of the StreamingResponse of lines 1019-1023, after the
\* handler has returned: response.iter_content(chunk_size) is consumed while
\* the client listens. get_yt_audio has no statement on these paths: no
\* response.close(), no session.close(), no finally, no background task.
Streaming(t) ==
    /\ pc[t] = "done"
    /\ op[t] = "stream"
    /\ ret[t].body = "stream"
    /\ response[t].conn = "open"

\* line 1020: the next chunk is read from the upstream connection; reading
\* past the last chunk releases the connection
iter_content(t) ==
    /\ Streaming(t)
    /\ response[t].client = "connected"
    /\ response' = [response EXCEPT ![t] =
                        IF response[t].chunks = 0
                        THEN [response[t] EXCEPT !.conn = "released"]
                        ELSE [response[t] EXCEPT !.chunks = response[t].chunks - 1]]
    /\ UNCHANGED <<now, ticks, rlock_has_count, lifespan, prefetch, parsed, extract_info_calls, request, headers,
                   pool, caches, registry, pc, locals, ret>>

\* line 1020: the upstream fails while a chunk is read; the read raises and
\* the connection is dropped
iter_content_error(t) ==
    /\ Streaming(t)
    /\ response[t].client = "connected"
    /\ response' = [response EXCEPT ![t].conn = "released"]
    /\ UNCHANGED <<now, ticks, rlock_has_count, lifespan, prefetch, parsed, extract_info_calls, request, headers,
                   pool, caches, registry, pc, locals, ret>>

\* the client goes away while the body is streamed: the iterator is no
\* longer advanced, and no statement of the handler runs
client_disconnect(t) ==
    /\ Streaming(t)
    /\ response[t].client = "connected"
    /\ response' = [response EXCEPT ![t].client = "gone"]
    /\ UNCHANGED <<now, ticks, rlock_has_count, lifespan, prefetch, parsed, extract_info_calls, request, headers,
                   pool, caches, registry, pc, locals, ret>>

\* the abandoned response and session of lines 976-989 are finalised by the
\* interpreter, if and when it collects them
finalize(t) ==
    /\ Streaming(t)
    /\ response[t].client = "gone"
    /\ response' = [response EXCEPT ![t].conn = "released"]
    /\ UNCHANGED <<now, ticks, rlock_has_count, lifespan, prefetch, parsed, extract_info_calls, request, headers,
                   pool, caches, registry, pc, locals, ret>>

\* the request is over once its upstream connection is
stream_finish(t) ==
    /\ ~Streaming(t)
    /\ Finish(t)

get_yt_audio(t) ==
    \/ stream_read(t)
    \/ stream_del(t)
    \/ stream_select(t)
    \/ \E u \in UpstreamAnswers(headers[t]) : stream_upstream(t, u)
    \/ stream_respond(t)

\* ----------------------------------------------- audio_fallback, 1209-1272
\* line 1217: if fallback_cache_key in audio_url_cache
FallbackCall(t, v) ==
    /\ pc[t] = "idle"
    /\ op' = [op EXCEPT ![t] = "fallback"]
    /\ vid' = [vid EXCEPT ![t] = v]
    /\ pc' = [pc EXCEPT ![t] =
                 IF InCache(audio_url_cache, FallbackKey(v), now) THEN "f1218" ELSE "x170"]
    /\ UNCHANGED <<env, pool, caches, registry, lock, deadline, to_remove, info, ret>>

\* lines 1218-1229: read the entry; redirect to its url while it is not
\* expired, otherwise go on to the extraction (the entry stays in the cache)
fallback_read(t) ==
    /\ pc[t] = "f1218"
    /\ LET e == audio_url_cache[FallbackKey(vid[t])]
       IN IF ~InCache(audio_url_cache, FallbackKey(vid[t]), now)
          THEN Leave(t, OuterHandler(t, 1218, "KeyError"))
          ELSE IF NotExpired(e.expire, now)
               THEN Leave(t, Redirect(IF e.fmt = "dict" THEN 1223 ELSE 1229,
                                      e.url, e.expire, e.ctype))
               ELSE pc' = [pc EXCEPT ![t] = "x170"] /\ UNCHANGED ret
    /\ UNCHANGED <<env, pool, caches, registry, locals>>

\* lines 1242-1264: the first format with an audio codec and a url
fallback_select(t) ==
    /\ pc[t] = "f1242"
    /\ LET i == info[t]
       IN IF i.kind \in {"noformats", "nourl"}
          THEN Leave(t, ErrorPayload(1252)) /\ UNCHANGED audio_url_cache
          ELSE /\ audio_url_cache' =
                     [audio_url_cache EXCEPT ![FallbackKey(vid[t])] = DictEntry(i.url, now)]
               /\ Leave(t, Redirect(1264, i.url, now + FALLBACK_HORIZON, "audio/mp4"))
    /\ info' = [info EXCEPT ![t] = NoInfo]
    /\ UNCHANGED <<env, pool, audio_url_failure_cache, video_info_cache, registry, op, vid,
                   lock, deadline, to_remove>>

audio_fallback(t) ==
    \/ fallback_read(t)
    \/ fallback_select(t)

\* ------------------------------------------------ download_audio, 1031-1141
\* lines 1039-1042: an exception of get_or_cache_audio_url is caught at line
\* 1139; without a URL the answer is {"error": "Could not extract audio URL"};
\* otherwise the HEAD request of line 1048 is sent
download_check(t) ==
    /\ pc[t] = "d1041"
    /\ IF ret[t].exc # ""
       THEN /\ pc' = [pc EXCEPT ![t] = "done"]
            /\ ret' = [ret EXCEPT ![t] = ErrorPayload(1141)]
       ELSE IF ret[t].url = NoneUrl
            THEN /\ pc' = [pc EXCEPT ![t] = "done"]
                 /\ ret' = [ret EXCEPT ![t] = ErrorPayload(1042)]
            ELSE /\ pc' = [pc EXCEPT ![t] = "d1048"]
                 /\ UNCHANGED ret
    /\ UNCHANGED <<env, pool, caches, registry, locals>>

\* What the upstream server does with a request of download_audio
TransferOutcomes == {"answers", "fails"}

\* lines 1048-1123: session.head(audio_url, timeout=10) answers and the
\* transfer of the body begins, or the request fails (caught at line 1139)
download_head(t, u) ==
    /\ pc[t] = "d1048"
    /\ u \in TransferOutcomes
    /\ IF u = "answers"
       THEN /\ pc' = [pc EXCEPT ![t] = "d1123"]
            /\ UNCHANGED ret
       ELSE /\ pc' = [pc EXCEPT ![t] = "done"]
            /\ ret' = [ret EXCEPT ![t] = ErrorPayload(1141)]
    /\ UNCHANGED <<env, pool, caches, registry, locals>>

\* lines 1066-1136: session.get(audio_url, ..., stream=True, timeout=30) and
\* the StreamingResponse that hands the body to the client (no status_code:
\* 200), or the request fails
download_transfer(t, u) ==
    /\ pc[t] = "d1123"
    /\ u \in TransferOutcomes
    /\ pc' = [pc EXCEPT ![t] = "done"]
    /\ ret' = [ret EXCEPT ![t] =
                  IF u = "answers"
                  THEN [ret[t] EXCEPT !.site = 1134, !.status = 200, !.body = "stream"]
                  ELSE ErrorPayload(1141)]
    /\ UNCHANGED <<env, pool, caches, registry, locals>>

download_audio(t) ==
    \/ download_check(t)
    \/ \E u \in TransferOutcomes : download_head(t, u)
    \/ \E u \in TransferOutcomes : download_transfer(t, u)

extract_video_info_fast(t) ==
    \/ info_check(t)
    \/ info_read(t)
    \/ \E a \in ResolverAnswers : info_return(t, a)

get_or_cache_audio_url(t) ==
    \/ cleanup_scan(t)
    \/ \E v \in VideoIds : cleanup_remove(t, v)
    \/ cleanup_done(t)
    \/ SetDefault(t)
    \/ rlock_acquire(t)
    \/ set_acquire_time(t)
    \/ acquire_timeout(t)
    \/ timeout_check(t)
    \/ timeout_del(t)
    \/ cache_check(t)
    \/ cache_read(t)
    \/ cache_del(t)
    \/ \E a \in ResolverAnswers : resolver_return(t, a)
    \/ rlock_release(t)
    \/ clear_acquire_time(t)

\* =================================================== PriorityThreadPool
threads == <<op, pc, vid, lock, deadline, to_remove, info, ret>>
store == <<env, caches, registry>>

\* PriorityTask.__init__, lines 330-336
PriorityTask(n, priority, task_id, t) ==
    [seq |-> n, priority |-> priority, task_id |-> task_id, created_at |-> t]

\* TaskLockFree as it would be if submit did not take task_lock
TaskLockFree_NotTaken(l) == TRUE

\* threading.Lock: `with self.task_lock` enters when no thread is inside
TaskLockFree(l) == l = 0

\* PriorityTask.__lt__, lines 338-343: the lower priority number first, and
\* within one priority the older created_at first
PriorityTask_lt(self, other) ==
    IF self.priority # other.priority
    THEN self.priority < other.priority
    ELSE self.created_at < other.created_at

\* line 363: task = PriorityTask(priority, task_id, func, ...)
CreateTask(s, priority, task_id) ==
    /\ submitter[s].state = "idle"
    /\ submitted < MaxTasks
    /\ submitted' = submitted + 1
    /\ submitter' = [submitter EXCEPT ![s] =
                        [state |-> "s365",
                         task |-> PriorityTask(submitted + 1, priority, task_id, now),
                         count |-> 0]]
    /\ UNCHANGED <<work_queue, worker, stats, running_tasks, task_lock, reply, exec_log,
                   raised_tasks>>

\* submit called by a caller that is not the prefetch loop
submit_create(s, priority, task_id) ==
    /\ CreateTask(s, priority, task_id)
    /\ UNCHANGED <<store, threads>>

\* lines 365-366: with self.task_lock: ... += 1 reads the tier's count
submit_count(s) ==
    /\ submitter[s].state = "s365"
    /\ TaskLockFree(task_lock)
    /\ task_lock' = s
    /\ submitter' = [submitter EXCEPT ![s].state = "s366",
                                      ![s].count = stats[submitter[s].task.priority]]
    /\ UNCHANGED <<store, threads, work_queue, worker, stats, running_tasks, reply,
                   submitted, exec_log,
                   raised_tasks>>

\* line 366: ... += 1 stores the count read plus one; the with block ends
submit_add(s) ==
    /\ submitter[s].state = "s366"
    /\ stats' = [stats EXCEPT ![submitter[s].task.priority] = submitter[s].count + 1]
    /\ task_lock' = 0
    /\ submitter' = [submitter EXCEPT ![s].state = "s369", ![s].count = 0]
    /\ UNCHANGED <<store, threads, work_queue, worker, running_tasks, reply, submitted,
                   exec_log,
                   raised_tasks>>

\* Enqueue as it would be if the work item were put at the head of the queue
Enqueue_AtHead(q, task) == <<task>> \o q

\* ThreadPoolExecutor.submit puts the work item at the tail of its queue
Enqueue(q, task) == Append(q, task)

\* line 369: future = self.thread_pool.submit(self._execute_task, task)
submit_enqueue(s) ==
    /\ submitter[s].state = "s369"
    /\ work_queue' = Enqueue(work_queue, submitter[s].task)
    /\ submitter' = [submitter EXCEPT ![s].state = "s372"]
    /\ UNCHANGED <<store, threads, worker, stats, running_tasks, task_lock, reply,
                   submitted, exec_log,
                   raised_tasks>>

\* lines 371-374: with self.task_lock: self.running_tasks[task_id] = future;
\* return future
submit_register(s) ==
    /\ submitter[s].state = "s372"
    /\ TaskLockFree(task_lock)
    /\ running_tasks' = [running_tasks EXCEPT ![submitter[s].task.task_id] =
                                                  submitter[s].task.seq]
    /\ submitter' = [submitter EXCEPT ![s] = [state |-> "idle", task |-> NoTask, count |-> 0]]
    /\ UNCHANGED <<store, threads, work_queue, worker, stats, task_lock, reply, submitted,
                   exec_log,
                   raised_tasks>>

submit(s) ==
    \/ \E priority \in SubmittedPriorities, task_id \in TaskIds :
          submit_create(s, priority, task_id)
    \/ submit_count(s)
    \/ submit_add(s)
    \/ submit_enqueue(s)
    \/ submit_register(s)

\* ------------------------------------------------ prefetch submission
\* str.strip(): the token without its leading and trailing blanks
RECURSIVE lstrip(_)
lstrip(s) == IF s # <<>> /\ Head(s) = Blank THEN lstrip(Tail(s)) ELSE s

RECURSIVE rstrip(_)
rstrip(s) ==
    IF s # <<>> /\ s[Len(s)] = Blank THEN rstrip(SubSeq(s, 1, Len(s) - 1)) ELSE s

strip(s) == rstrip(lstrip(s))

\* video_id_list as it would be if the identifiers were taken in reverse order
RECURSIVE video_id_list_Reversed(_)
video_id_list_Reversed(tokens) ==
    IF tokens = <<>> THEN <<>>
    ELSE video_id_list_Reversed(Tail(tokens)) \o
         (IF strip(Head(tokens)) # <<>> THEN <<strip(Head(tokens))>> ELSE <<>>)

\* line 731: [vid.strip() for vid in video_ids.split(",") if vid.strip()]
RECURSIVE video_id_list(_)
video_id_list(tokens) ==
    IF tokens = <<>> THEN <<>>
    ELSE (IF strip(Head(tokens)) # <<>> THEN <<strip(Head(tokens))>> ELSE <<>>) \o
         video_id_list(Tail(tokens))

\* line 419: task_id = f"prefetch_{vid}", one name per identifier
PrefetchTaskId(v) == v[1]

\* GET /critical_prefetch?video_ids=..., lines 727-735: the identifiers are
\* split and trimmed; with none left the endpoint answers at line 734
critical_prefetch_endpoint(tokens) ==
    /\ prefetch.state = "idle"
    /\ prefetch' = IF video_id_list(tokens) = <<>>
                   THEN [NoPrefetch EXCEPT !.state = "done", !.video_ids = tokens,
                                           !.base = submitted, !.error = TRUE]
                   ELSE [NoPrefetch EXCEPT !.state = "p418", !.video_ids = tokens,
                                           !.video_id_list = video_id_list(tokens),
                                           !.priority = CRITICAL, !.base = submitted]
    /\ UNCHANGED <<now, ticks, rlock_has_count, lifespan, parsed, extract_info_calls, http, caches,
                   registry, threads, pool>>

\* lines 418-420: for vid in video_ids: priority_pool.submit(priority,
\* f"prefetch_{vid}", fetch_single, vid); the call is at its line 363
prefetch_submit ==
    /\ prefetch.state = "p418"
    /\ prefetch.i <= Len(prefetch.video_id_list)
    /\ CreateTask(PrefetchCaller, prefetch.priority,
                  PrefetchTaskId(prefetch.video_id_list[prefetch.i]))
    /\ prefetch' = [prefetch EXCEPT !.i = prefetch.i + 1]
    /\ UNCHANGED <<now, ticks, rlock_has_count, lifespan, parsed, extract_info_calls, http, caches,
                   registry, threads>>

\* lines 739-742: the loop is over once the last submit has returned; the
\* endpoint returns {"message": ..., "video_ids": video_id_list}
prefetch_return ==
    /\ prefetch.state = "p418"
    /\ prefetch.i > Len(prefetch.video_id_list)
    /\ submitter[PrefetchCaller].state = "idle"
    /\ prefetch' = [prefetch EXCEPT !.state = "done", !.ret = prefetch.video_id_list]
    /\ UNCHANGED <<now, ticks, rlock_has_count, lifespan, parsed, extract_info_calls, http, caches,
                   registry, threads, pool>>

\* the response has been sent
prefetch_done ==
    /\ prefetch.state = "done"
    /\ prefetch' = NoPrefetch
    /\ UNCHANGED <<now, ticks, rlock_has_count, lifespan, parsed, extract_info_calls, http, caches,
                   registry, threads, pool>>

\* ------------------------------------------- parse_expire_from_url alone
parse_call(url) ==
    /\ parsed.state = "idle"
    /\ parsed' = [NoParse EXCEPT !.state = "p121", !.url = url]
    /\ UNCHANGED <<now, ticks, rlock_has_count, lifespan, prefetch, extract_info_calls, http, caches,
                   registry, threads, pool>>

parse_return ==
    /\ parsed.state = "p121"
    /\ parsed' = [parsed EXCEPT !.state = "done", !.time = now,
                                !.exc = parse_expire_outcome(parsed.url, now).exc,
                                !.value = parse_expire_outcome(parsed.url, now).value]
    /\ UNCHANGED <<now, ticks, rlock_has_count, lifespan, prefetch, extract_info_calls, http, caches,
                   registry, threads, pool>>

parse_done ==
    /\ parsed.state = "done"
    /\ parsed' = NoParse
    /\ UNCHANGED <<now, ticks, rlock_has_count, lifespan, prefetch, extract_info_calls, http, caches,
                   registry, threads, pool>>

\* sum(stats.values())
RECURSIVE SumValues(_, _)
SumValues(d, keys) ==
    IF keys = {}
    THEN 0
    ELSE LET k == CHOOSE x \in keys : TRUE
         IN d[k] + SumValues(d, keys \ {k})

\* lines 389-392: with self.task_lock: return self.stats.copy(). The caller
\* gets a dict of its own with the counts of that moment.
get_stats(d) == [p \in TaskPriority |-> d[p]]

\* lines 707-713 of get_task_statistics: stats = priority_pool.get_stats();
\* "task_statistics": stats, "total_tasks": sum(stats.values())
get_task_statistics ==
    /\ reply.state = "none"
    /\ TaskLockFree(task_lock)
    /\ reply' = [state |-> "taken",
                 task_statistics |-> get_stats(stats),
                 total_tasks |-> SumValues(get_stats(stats), TaskPriority)]
    /\ UNCHANGED <<store, threads, work_queue, worker, stats, running_tasks, submitter,
                   task_lock, submitted, exec_log,
                   raised_tasks>>

\* The caller of get_stats writes into the dict it was given
mutate_reply(p) ==
    /\ reply.state = "taken"
    /\ reply' = [reply EXCEPT !.state = "mutated", !.task_statistics[p] = 0]
    /\ UNCHANGED <<store, threads, work_queue, worker, stats, running_tasks, submitter,
                   task_lock, submitted, exec_log,
                   raised_tasks>>

\* The caller drops the dict
drop_reply ==
    /\ reply.state # "none"
    /\ reply' = [state |-> "none", task_statistics |-> [p \in TaskPriority |-> 0],
                 total_tasks |-> 0]
    /\ UNCHANGED <<store, threads, work_queue, worker, stats, running_tasks, submitter,
                   task_lock, submitted, exec_log,
                   raised_tasks>>

\* The executor's worker loop: work_item = work_queue.get(block=True).
\* The queue is a queue.SimpleQueue: get takes the item at the head.
Dequeue(q) == 1

worker_get(w) ==
    /\ worker[w].state = "idle"
    /\ work_queue # <<>>
    /\ LET i == Dequeue(work_queue)
       IN /\ worker' = [worker EXCEPT ![w] = [state |-> "e378", task |-> work_queue[i]]]
          /\ work_queue' = [k \in 1..(Len(work_queue) - 1) |->
                               IF k < i THEN work_queue[k] ELSE work_queue[k + 1]]
    /\ UNCHANGED <<store, threads, stats, running_tasks, submitter, task_lock, reply,
                   submitted, exec_log,
                   raised_tasks>>

\* lines 376-379: work_item.run() enters _execute_task, which logs
\* "Executing ... task" and calls task.func
execute_start(w) ==
    /\ worker[w].state = "e378"
    /\ exec_log' = Append(exec_log, worker[w].task)
    /\ worker' = [worker EXCEPT ![w].state = "e379"]
    /\ UNCHANGED <<store, threads, work_queue, stats, running_tasks, submitter, task_lock,
                   reply, submitted, raised_tasks>>

\* lines 379-383: task.func returns, or raises and the exception is logged
\* and raised again into the future
TaskOutcomes == {"result", "exception"}

execute_func(w, outcome) ==
    /\ worker[w].state = "e379"
    /\ outcome \in TaskOutcomes
    /\ worker' = [worker EXCEPT ![w].state = "e385"]
    /\ raised_tasks' = IF outcome = "exception"
                       THEN raised_tasks \cup {worker[w].task.seq}
                       ELSE raised_tasks
    /\ UNCHANGED <<store, threads, work_queue, stats, running_tasks, submitter, task_lock,
                   reply, submitted, exec_log>>

\* execute_finally as it would be if the exception of a task ended the
\* worker's loop: the worker that ran a raising task takes no further task
execute_finally_RaiseEndsWorker(w) ==
    /\ worker[w].state = "e385"
    /\ TaskLockFree(task_lock)
    /\ running_tasks' = [running_tasks EXCEPT ![worker[w].task.task_id] = 0]
    /\ worker' = [worker EXCEPT ![w] =
                     [state |-> IF worker[w].task.seq \in raised_tasks THEN "ended" ELSE "idle",
                      task |-> NoTask]]
    /\ UNCHANGED <<store, threads, work_queue, stats, submitter, task_lock, reply,
                   submitted, exec_log, raised_tasks>>

\* lines 384-387: finally: with self.task_lock: if task.task_id in
\* self.running_tasks: del ... The exception raised again at line 383 goes
\* into the future (work_item.run catches it) and the executor's worker
\* loop goes on to its next work_queue.get.
execute_finally(w) ==
    /\ worker[w].state = "e385"
    /\ TaskLockFree(task_lock)
    /\ running_tasks' = [running_tasks EXCEPT ![worker[w].task.task_id] = 0]
    /\ worker' = [worker EXCEPT ![w] = [state |-> "idle", task |-> NoTask]]
    /\ UNCHANGED <<store, threads, work_queue, stats, submitter, task_lock, reply,
                   submitted, exec_log, raised_tasks>>

_execute_task(w) ==
    \/ execute_start(w)
    \/ \E outcome \in TaskOutcomes : execute_func(w, outcome)
    \/ execute_finally(w)

\* Handing the result to the caller is local to the thread: it is taken
\* before any other thread moves on.
Returning == \E t \in Threads : pc[t] = "done"

\* ------------------------------------------- the coordinator, all threads
Next ==
    \/ \E t \in Threads : Finish(t)
    \/ ~Returning /\ Tick
    \/ ~Returning /\ \E t \in Threads, v \in VideoIds, sweep \in BOOLEAN : Call(t, v, sweep)
    \/ ~Returning /\ \E t \in Threads : get_or_cache_audio_url(t)

Spec == Init /\ [][Next]_vars

\* The same on CPython, whose threading.RLock is the C lock
CPythonInit == Init /\ ~rlock_has_count

CPythonSpec == CPythonInit /\ [][Next]_vars

\* ---------------------------------------- the coordinator, one call at a time
SeqThread == 1

SeqNext ==
    \/ Finish(SeqThread)
    \/ ~Returning /\ Tick
    \/ ~Returning /\ \E v \in VideoIds, sweep \in BOOLEAN : Call(SeqThread, v, sweep)
    \/ ~Returning /\ get_or_cache_audio_url(SeqThread)

SeqSpec == Init /\ [][SeqNext]_vars

\* ---- one call at a time until the application is shut down
ShutdownNext ==
    \/ lifespan.state = "yield" /\ SeqNext
    \/ lifespan_shutdown

ShutdownSpec == Init /\ [][ShutdownNext]_vars

\* ---- one call at a time, for the ids of VideoIds and for any number of
\* other ids
RegistryNext ==
    \/ SeqNext
    \/ \E sweep \in BOOLEAN : OtherCall(sweep)

RegistrySpec == Init /\ [][RegistryNext]_vars

\* ---- N calls for one id started together with nothing cached: each is past
\* the failure check of line 236 and has drawn its sweep (line 240) or not
BurstInit ==
    /\ StoreInit
    /\ PoolInit
    /\ op = [t \in Threads |-> "resolve"]
    /\ pc \in [Threads -> {"c136", "g244"}]
    /\ vid = [t \in Threads |-> 1]
    /\ lock = [t \in Threads |-> 0]
    /\ deadline = [t \in Threads |-> 0]
    /\ to_remove = [t \in Threads |-> {}]
    /\ info = [t \in Threads |-> NoInfo]
    /\ ret = [t \in Threads |-> NoRet]
    /\ request = [t \in Threads |-> NoHeader]
    /\ headers = [t \in Threads |-> [Range |-> NoHeader]]
    /\ response = [t \in Threads |-> NoResponse]

BurstNext ==
    \/ Tick
    \/ \E t \in Threads : get_or_cache_audio_url(t)

BurstSpec == BurstInit /\ [][BurstNext]_vars

\* ---------------- the coordinator next to the streaming entry points.
\* get_yt_audio and audio_fallback are async def handlers without an await:
\* they run one at a time on the server's event loop thread, next to the
\* pool's threads that run get_or_cache_audio_url.
EventLoop == NThreads
PoolThreads == Threads \ {EventLoop}

StreamNext ==
    \/ \E t \in Threads : Finish(t)
    \/ ~Returning /\ Tick
    \/ ~Returning /\ \E t \in PoolThreads, v \in VideoIds, sweep \in BOOLEAN : Call(t, v, sweep)
    \/ ~Returning /\ \E v \in VideoIds : StreamCall(EventLoop, v, NoHeader)
    \/ ~Returning /\ \E v \in VideoIds : FallbackCall(EventLoop, v)
    \/ ~Returning /\ \E t \in Threads : get_or_cache_audio_url(t)
    \/ ~Returning /\ \E t \in Threads : extract_video_info_fast(t)
    \/ ~Returning /\ \E t \in Threads : get_yt_audio(t)
    \/ ~Returning /\ \E t \in Threads : audio_fallback(t)

StreamSpec == Init /\ [][StreamNext]_vars

\* ---- get_yt_audio requests for one id that arrive together with nothing
\* cached: the event loop serves them one after the other, and no cache
\* entry expires in between
RequestBurstNext ==
    \/ Finish(EventLoop)
    \/ ~Returning /\ \E v \in VideoIds : StreamCall(EventLoop, v, NoHeader)
    \/ ~Returning /\ extract_video_info_fast(EventLoop)
    \/ ~Returning /\ get_yt_audio(EventLoop)

RequestBurstSpec == Init /\ [][RequestBurstNext]_vars

\* ---- get_yt_audio alone, with and without a Range header in the request
ProxyNext ==
    \/ Finish(EventLoop)
    \/ ~Returning /\ Tick
    \/ ~Returning /\ \E v \in VideoIds, range \in Ranges : StreamCall(EventLoop, v, range)
    \/ ~Returning /\ extract_video_info_fast(EventLoop)
    \/ ~Returning /\ get_yt_audio(EventLoop)

ProxySpec == Init /\ [][ProxyNext]_vars

\* ---- get_yt_audio with the transfer of the body: the handler and the
\* reader of the body go on; the client may leave at any time or never, and
\* nothing obliges the interpreter to collect an abandoned object.
ConnectionSteps ==
    \/ stream_finish(EventLoop)
    \/ ~Returning /\ \E v \in VideoIds, range \in Ranges : StreamCall(EventLoop, v, range)
    \/ ~Returning /\ extract_video_info_fast(EventLoop)
    \/ ~Returning /\ get_yt_audio(EventLoop)
    \/ iter_content(EventLoop)

ConnectionNext ==
    \/ ConnectionSteps
    \/ ~Returning /\ Tick
    \/ iter_content_error(EventLoop)
    \/ client_disconnect(EventLoop)
    \/ finalize(EventLoop)

ConnectionSpec == CPythonInit /\ [][ConnectionNext]_vars /\ WF_vars(ConnectionSteps)

\* ---- download_audio on the event loop thread, next to the pool's threads
\* that run get_or_cache_audio_url. (get_yt_audio, the other endpoint that
\* transfers bytes, calls no lock operation: see StreamSpec.)
TransferNext ==
    \/ \E t \in Threads : Finish(t)
    \/ ~Returning /\ Tick
    \/ ~Returning /\ \E t \in PoolThreads, v \in VideoIds, sweep \in BOOLEAN : Call(t, v, sweep)
    \/ ~Returning /\ \E v \in VideoIds, sweep \in BOOLEAN : DownloadCall(EventLoop, v, sweep)
    \/ ~Returning /\ \E t \in Threads : get_or_cache_audio_url(t)
    \/ ~Returning /\ download_audio(EventLoop)

TransferSpec == Init /\ [][TransferNext]_vars

\* ------------------------------------------------------- the priority pool
PoolNext ==
    \/ submit(1)
    \/ \E w \in Workers : worker_get(w)
    \/ \E w \in Workers : _execute_task(w)

PoolSpec == Init /\ [][PoolNext]_vars

\* ---- the workers: one caller submits tasks of one tier; the threads are
\* scheduled fairly and every task.func returns or raises. A caller inside
\* `with self.task_lock` goes on.
WorkerNext ==
    \/ submit_create(1, LOW, 1)
    \/ submit_count(1)
    \/ submit_add(1)
    \/ submit_enqueue(1)
    \/ submit_register(1)
    \/ \E w \in Workers : worker_get(w)
    \/ \E w \in Workers : _execute_task(w)

WorkerSpec ==
    /\ Init
    /\ [][WorkerNext]_vars
    /\ WF_vars(submit_add(1))
    /\ \A w \in Workers : WF_vars(worker_get(w)) /\ WF_vars(_execute_task(w))

\* ---- a prefetch request: the endpoint thread submits, the workers run
\* fetch_single, which catches every Exception (lines 410-416)
PrefetchNext ==
    \/ \E tokens \in Requests : critical_prefetch_endpoint(tokens)
    \/ prefetch_submit
    \/ submit_count(PrefetchCaller)
    \/ submit_add(PrefetchCaller)
    \/ submit_enqueue(PrefetchCaller)
    \/ submit_register(PrefetchCaller)
    \/ prefetch_return
    \/ prefetch_done
    \/ \E w \in Workers : worker_get(w)
    \/ \E w \in Workers : execute_start(w)
    \/ \E w \in Workers : execute_func(w, "result")
    \/ \E w \in Workers : execute_finally(w)

PrefetchSpec == CPythonInit /\ [][PrefetchNext]_vars

\* ---- a Resolver that never returns: the extract_info of thread Holder
\* stays at line 276 for ever, every other step of the program is taken in
\* the end, and time passes. A thread's step waits while a caller takes a
\* result, which keeps happening: the steps are strongly fair. A call starts
\* while the clock of the model can still reach its timeout.
Holder == 1
Others == Threads \ {Holder}

BeforeResolver(t) ==
    \/ cleanup_scan(t)
    \/ \E v \in VideoIds : cleanup_remove(t, v)
    \/ cleanup_done(t)
    \/ SetDefault(t)
    \/ rlock_acquire(t)
    \/ set_acquire_time(t)
    \/ acquire_timeout(t)
    \/ timeout_check(t)
    \/ timeout_del(t)
    \/ cache_check(t)
    \/ cache_read(t)
    \/ cache_del(t)
    \/ rlock_release(t)
    \/ clear_acquire_time(t)

StuckNext ==
    \/ \E t \in Threads : Finish(t)
    \/ ~Returning /\ Tick
    \/ ~Returning /\ ticks < MaxTicks /\
          \E t \in Threads, v \in VideoIds, sweep \in BOOLEAN : Call(t, v, sweep)
    \/ ~Returning /\ BeforeResolver(Holder)
    \/ ~Returning /\ \E t \in Others : get_or_cache_audio_url(t)

StuckSpec ==
    /\ CPythonInit
    /\ [][StuckNext]_vars
    /\ WF_vars(\E t \in Threads : Finish(t))
    /\ SF_vars(~Returning /\ Tick)
    /\ SF_vars(~Returning /\ BeforeResolver(Holder))
    /\ \A t \in Others : SF_vars(~Returning /\ get_or_cache_audio_url(t))

\* ---- parse_expire_from_url called with any URL at any time
ParseNext ==
    \/ Tick
    \/ \E url \in ParsedUrls : parse_call(url)
    \/ parse_return
    \/ parse_done

ParseSpec == CPythonInit /\ [][ParseNext]_vars

\* ---- the counters of the pool: callers of submit on several threads, and
\* a caller of /task_stats
CounterNext ==
    \/ \E s \in Submitters : submit(s)
    \/ get_task_statistics
    \/ \E p \in SubmittedPriorities : mutate_reply(p)
    \/ drop_reply

CounterSpec == Init /\ [][CounterNext]_vars

\* ================================================================ properties
\* The exits of get_or_cache_audio_url that follow a Resolver call
ResolverSites == {279, 289, 300, 306, 310}
\* The exits of the readers that answer from audio_url_cache
HitSites == {262, 892, 1223, 1229}

LiveEntry(v) ==
    /\ InCache(audio_url_cache, v, now)
    /\ NotExpired(audio_url_cache[v].expire, now)

InResolver(t) == pc[t] = "g276"
HoldsLock(t) == \E h \in Handles : locks[h].owner = t

\* C1: for every identifier at most one Resolver call of get_or_cache_audio_url
\* is in flight, whatever the interleaving of calls, lock timeouts and sweeps.
C1_Singleflight ==
    \A v \in VideoIds : Cardinality({t \in Threads : InResolver(t) /\ vid[t] = v}) <= 1

\* C8: a sweep that meets a lock held for more than 30 seconds selects it,
\* and when it removes it the lock is free afterwards and the registry has
\* no handle for the identifier.
StaleHeld(v) ==
    /\ audio_url_locks[v] # 0
    /\ locked(audio_url_locks[v])
    /\ locks[audio_url_locks[v]].acquire_time # None
    /\ now - locks[audio_url_locks[v]].acquire_time > STALE_AFTER

SweepScans(t) == pc[t] = "c136" /\ pc'[t] # "c136"

SweepRemoves(t, v) ==
    /\ pc[t] = "c145"
    /\ v \in to_remove[t]
    /\ v \notin to_remove'[t]

C8_StaleLockForceReleased ==
    [][\A t \in Threads, v \in VideoIds :
          /\ (StaleHeld(v) /\ SweepScans(t))
                => pc'[t] = "c145" /\ v \in to_remove'[t]
          /\ (StaleHeld(v) /\ SweepRemoves(t, v))
                => /\ locks'[audio_url_locks[v]].owner = 0
                   /\ audio_url_locks'[v] = 0]_vars

\* C9: a thread that has left get_or_cache_audio_url, by whichever exit,
\* owns no per-id lock.
C9_LockReleasedOnExit ==
    \A t \in Threads : pc[t] \in {"idle", "done"} => ~HoldsLock(t) /\ lock[t] = 0

\* C9 witness: a call left through the Resolver's exception path (line 310)
\* while the registry still has the handle, and the handle is free.
C9_Witness ==
    \E t \in Threads :
        /\ pc[t] = "done"
        /\ ret[t].site = 310
        /\ audio_url_locks[vid[t]] # 0
        /\ ~locked(audio_url_locks[vid[t]])
        /\ ~HoldsLock(t)

\* C4: one call at a time. (a) A Resolver failure for X leaves a failure
\* entry for X. (b) A call made while that entry is live returns the failure
\* result at once: no lock registered or taken, no Resolver call. (c) A call
\* that ends with no failure entry and no cache entry for X (none was there
\* when it began) has made a Resolver call.
ResolverFails(t) ==
    pc[t] = "g276" /\ pc'[t] # "g276" /\ ret'[t].site \in {279, 300, 310}

CallEnters(t) == pc[t] = "idle" /\ pc'[t] # "idle"

C4_NegativeCaching ==
    [][\A t \in Threads :
          /\ ResolverFails(t)
                => InFailureCache(audio_url_failure_cache', vid[t], now')
          /\ (CallEnters(t) /\ InFailureCache(audio_url_failure_cache, vid'[t], now))
                => /\ pc'[t] = "done"
                   /\ Value(ret'[t]) = Value(NoRet)
                   /\ UNCHANGED registry
          /\ (pc[t] # "done" /\ pc'[t] = "done" /\ ~InCache(audio_url_cache, vid[t], now)
                /\ ~InFailureCache(audio_url_failure_cache, vid[t], now))
                => ret'[t].site \in ResolverSites]_vars

\* C7: one call at a time. While a call for id is under way and a live entry
\* for id is cached with no live failure entry, the call has taken no lock
\* and made no Resolver call: it is already returning the entry.
C7_HitWithoutLock ==
    \A t \in Threads :
        (op[t] = "resolve" /\ pc[t] \notin {"idle", "done", "r34", "r35"}
            /\ LiveEntry(vid[t]) /\ ~InFailureCache(audio_url_failure_cache, vid[t], now))
           => ~HoldsLock(t)

\* C2: N calls for one id started together with nothing cached: when all
\* have returned, exactly one of them has called the Resolver and all have
\* returned the same result.
C2_OneInvocationSameResult ==
    (\A t \in Threads : pc[t] = "done")
        => /\ Cardinality({t \in Threads : ret[t].site \in ResolverSites}) = 1
           /\ \A t, u \in Threads : Value(ret[t]) = Value(ret[u])

\* The cache key a reader looks up
ReaderKey(t) == IF op[t] = "fallback" THEN FallbackKey(vid[t]) ELSE vid[t]

\* A reader answers from the cache
HitStep(t) == ret[t].site \notin HitSites /\ ret'[t].site \in HitSites

\* A reader reads the entry (lines 260, 889, 1218)
ReadStep(t) ==
    /\ pc[t] \in {"g260", "y889", "f1218"}
    /\ pc'[t] # pc[t]
    /\ InCache(audio_url_cache, ReaderKey(t), now)

\* A reader that found the entry expired goes on to the extraction
ExpiredReadDone(t) ==
    /\ pc[t] \in {"g264", "y895", "f1218"}
    /\ pc'[t] \in {"g276", "x170"}

C3_HitsAreLive ==
    \A t \in Threads :
        /\ HitStep(t) => /\ now < audio_url_cache[ReaderKey(t)].expire
                         /\ ret'[t].url = audio_url_cache[ReaderKey(t)].url
        /\ (ReadStep(t) /\ now >= audio_url_cache[ReaderKey(t)].expire) => ~HitStep(t)

StartsResolver(t) ==
    pc[t] \notin {"g276", "x223"} /\ pc'[t] \in {"g276", "x223"}

C10_NoResolverWhileFailureLive ==
    [][\A t \in Threads :
          StartsResolver(t) => ~InFailureCache(audio_url_failure_cache, vid[t], now)]_vars

\* C5: a worker that takes a task takes one whose priority value is the
\* smallest among the tasks waiting.
WorkerTakes(w) == worker[w].state = "idle" /\ worker'[w].state = "e378"

C5_SmallestPriorityFirst ==
    [][\A w \in Workers :
          WorkerTakes(w)
             => \A i \in DOMAIN work_queue :
                   worker'[w].task.priority <= work_queue[i].priority]_vars

\* C6 as claimed: tasks of one priority start (line 378) in the order they
\* were submitted.
C6_TierStartsInSubmissionOrder ==
    \A i, j \in DOMAIN exec_log :
        (i < j /\ exec_log[i].priority = exec_log[j].priority)
            => exec_log[i].seq < exec_log[j].seq

\* C6 as amended: tasks of one priority are taken from the queue in the
\* order they were submitted: no task still waiting is older than a started
\* task of its priority.
C6_TierDequeuedInSubmissionOrder ==
    \A i \in DOMAIN exec_log, k \in DOMAIN work_queue :
        exec_log[i].priority = work_queue[k].priority
            => exec_log[i].seq < work_queue[k].seq

\* C6 witness: two tasks of one priority have started, and a third of that
\* priority is waiting.
C6_Witness ==
    \E i, j \in DOMAIN exec_log, k \in DOMAIN work_queue :
        /\ i < j
        /\ exec_log[i].priority = exec_log[j].priority
        /\ exec_log[j].priority = work_queue[k].priority

\* C11. The requests of a burst of get_yt_audio requests for one id, started
\* with nothing cached for it, cause at most one call of the Resolver
\* (ydl.extract_info) for that id.
C11_BurstResolvesOnce ==
    \A v \in VideoIds : extract_info_calls[v] <= 1

\* C12: one call at a time. Every step of a get_or_cache_audio_url call for
\* id taken while the entry of id is fresh leaves that entry as it is and
\* starts no Resolver call, and the call returns the entry's (url, expiry,
\* content type): successive calls all return the same.
EntryValue(e) == <<"", e.url, e.expire, e.ctype>>

StepOf(t) == op'[t] = "resolve" /\ pc'[t] # pc[t]

C12_FreshHitsIdempotent ==
    [][\A t \in Threads :
          (StepOf(t) /\ LiveEntry(vid'[t]))
             => /\ audio_url_cache'[vid'[t]] = audio_url_cache[vid'[t]]
                /\ ~InResolver(t)'
                /\ pc'[t] = "done" => Value(ret'[t]) = EntryValue(audio_url_cache[vid'[t]])]_vars

\* The steps of the timeout path of get_or_cache_audio_url: lock.acquire
\* gives up (line 247), lines 251-252, and the return of line 256
TimeoutStep(t) ==
    /\ op[t] = "resolve"
    /\ \/ pc[t] = "g247" /\ pc'[t] = "g251"
       \/ pc[t] \in {"g251", "g252"} /\ pc'[t] # pc[t]

TimeoutExit(t) == pc[t] \in {"g251", "g252"} /\ pc'[t] = "done"

\* What a call returns when the Resolver found nothing (line 279)
ResolverEmpty == Value(Failure(279))

\* C13: a call whose lock.acquire timed out returns (it does not raise) an
\* outcome different from the one of an empty Resolver answer, has started no
\* Resolver call, and leaves the registry without a handle for its id.
C13_TimeoutOutcome ==
    [][\A t \in Threads :
          /\ TimeoutStep(t) => ~InResolver(t)'
          /\ TimeoutExit(t)
                => /\ ret'[t].exc = ""
                   /\ Value(ret'[t]) # ResolverEmpty
                   /\ audio_url_locks'[vid[t]] = 0]_vars

\* C14: no step of the timeout path writes audio_url_failure_cache or
\* audio_url_cache: what a retry finds there is what was there without the
\* timeout.
C14_TimeoutNotCached ==
    [][\A t \in Threads :
          TimeoutStep(t) => UNCHANGED <<audio_url_failure_cache, audio_url_cache>>]_vars

\* a call has returned from the timeout path and its id has no failure entry
C14_Witness ==
    \E t \in Threads :
        /\ pc[t] = "done"
        /\ ret[t].site = 256
        /\ ~InFailureCache(audio_url_failure_cache, vid[t], now)

\* C15: the upstream request of get_yt_audio carries the Range of the
\* client's request, and none when the request has none; the response sent
\* to the client has the status code and the Content-Range of the upstream
\* response.
C15_RangeForwarded ==
    \A t \in Threads :
        /\ (op[t] = "stream" /\ pc[t] \in {"y984", "y999"})
              => headers[t].Range = request[t]
        /\ (op[t] = "stream" /\ pc[t] = "done" /\ ret[t].site = 1019)
              => /\ headers[t].Range = request[t]
                 /\ ret[t].status = response[t].status
                 /\ ret[t].content_range = response[t].content_range

\* a request with a Range was answered 206 with the upstream's Content-Range
C15_Witness ==
    \E t \in Threads :
        /\ op[t] = "stream" /\ pc[t] = "done" /\ ret[t].site = 1019
        /\ request[t] # NoHeader
        /\ ret[t].status = 206
        /\ ret[t].content_range = "bytes 0-99/1000"

\* The status codes of a successful answer of the streaming endpoint
SuccessStatuses == {200, 206}

\* C17: a get_yt_audio request whose upstream request timed out or failed
\* is answered with a status that is none of the success statuses, and with
\* no byte stream.
C17_UpstreamFailureStatus ==
    \A t \in Threads :
        (op[t] = "stream" /\ pc[t] = "done" /\ ret[t].site \in {993, 996})
           => /\ ret[t].status \notin SuccessStatuses
              /\ ret[t].body # "stream"

\* The positions of a get_yt_audio request inside its resolution attempt
\* (the call of extract_video_info_fast and the choice of the URL)
Attempting == {"x170", "x172", "x223", "y915"}

\* C16: a get_yt_audio request that has found the cached URL of id expired
\* deletes the entry and goes on to a resolution attempt; a request makes
\* one attempt only, and when the attempt gives no URL the request ends with
\* an error payload.
C16_ExpiredRetriedOnce ==
    [][\A t \in Threads :
          op[t] = "stream" =>
             /\ (pc[t] = "y895" /\ pc'[t] # "y895")
                   => /\ ~InCache(audio_url_cache', vid[t], now')
                      /\ pc'[t] = "x170"
             /\ (pc[t] \in Attempting /\ pc'[t] # pc[t])
                   => /\ pc'[t] \in (Attempting \ {"x170"}) \cup {"y984", "done"}
                      /\ pc'[t] = "done" => ret'[t].body = "json"]_vars

\* A request is receiving the bytes of the resolved URL: the upstream
\* request of get_yt_audio or download_audio is open, or the
\* StreamingResponse is being handed to the client
Transferring(t) ==
    \/ op[t] = "stream" /\ pc[t] \in {"y984", "y999"}
    \/ op[t] = "download" /\ pc[t] \in {"d1048", "d1123"}
    \/ op[t] \in {"stream", "download"} /\ pc[t] = "done" /\ ret[t].body = "stream"

\* C18: a request that is transferring bytes from the resolved URL owns no
\* lock of audio_url_locks, and no caller of get_or_cache_audio_url is
\* waiting for a lock that request owns.
C18_NoLockDuringTransfer ==
    \A t \in Threads :
        Transferring(t)
           => /\ ~HoldsLock(t)
              /\ \A u \in Threads \ {t} :
                    (pc[u] = "g247" /\ lock[u] # 0) => locks[lock[u]].owner # t

\* download_audio is transferring while a get_or_cache_audio_url call for
\* the same id is at lock.acquire
C18_Witness ==
    \E t, u \in Threads :
        /\ op[t] = "download" /\ pc[t] = "d1123"
        /\ op[u] = "resolve" /\ pc[u] = "g247" /\ vid[u] = vid[t]

\* C19: after any sequence of get_or_cache_audio_url calls, on distinct ids,
\* audio_url_locks holds no more handles than the ceiling.
C19_RegistryBounded ==
    len(audio_url_locks, other_locks) <= LOCK_CEILING

\* The submit calls of tier p that have passed line 366: their tasks are
\* with their caller (lines 369-372), in the queue, with a worker or logged
\* as started
PastCount(p) ==
    {submitter[s].task.seq : s \in {x \in Submitters :
        submitter[x].state \in {"s369", "s372"} /\ submitter[x].task.priority = p}}
    \cup {work_queue[i].seq : i \in {k \in DOMAIN work_queue : work_queue[k].priority = p}}
    \cup {worker[w].task.seq : w \in {x \in Workers :
        worker[x].state = "e378" /\ worker[x].task.priority = p}}
    \cup {exec_log[i].seq : i \in {k \in DOMAIN exec_log : exec_log[k].priority = p}}

\* C20: whatever the interleaving of submit calls, the counter of every tier
\* is the number of submit calls of that tier that have passed line 366 (all
\* of them once the calls have returned), no counter ever decreases, the
\* total that /task_stats reports is the number of those calls, and writing
\* into the dict get_stats returned leaves the counters as they are.
C20_CountersExact ==
    [][/\ \A p \in TaskPriority :
             /\ stats'[p] = Cardinality(PastCount(p)')
             /\ stats'[p] >= stats[p]
       /\ (reply.state = "none" /\ reply'.state = "taken")
             => /\ reply'.task_statistics = stats
                /\ reply'.total_tasks =
                      Cardinality(UNION {PastCount(p) : p \in TaskPriority})
       /\ (reply.state = "taken" /\ reply'.state = "mutated") => stats' = stats]_vars

\* two submit calls of one tier have overlapped (one waited at line 365 for
\* the other) and have returned, and a dict from get_stats was written into
C20_Witness ==
    /\ \A s \in Submitters : submitter[s].state = "idle"
    /\ submitted = MaxTasks
    /\ \E p \in TaskPriority : stats[p] >= 2
    /\ reply.state = "mutated"
    /\ reply.task_statistics # stats

Queued(n) == \E i \in DOMAIN work_queue : work_queue[i].seq = n
Started(n) == \E i \in DOMAIN exec_log : exec_log[i].seq = n

\* C21: a worker that has taken a task is ready for the next one again,
\* whether the task returned or raised, and every task put into the queue is
\* started, however many tasks raised before.
C21_WorkersSurviveFailures ==
    /\ \A w \in Workers : (worker[w].state # "idle") ~> (worker[w].state = "idle")
    /\ \A n \in 1..MaxTasks : Queued(n) ~> Started(n)

\* as many tasks have raised as there are workers, and a task started after
\* all of them
C21_Witness ==
    /\ Cardinality(raised_tasks) >= NWorkers
    /\ \E i \in DOMAIN exec_log :
          /\ exec_log[i].seq \notin raised_tasks
          /\ \A j \in DOMAIN exec_log : exec_log[j].seq \in raised_tasks => j < i

\* ---------------------------------------------------------------- C22
\* the tasks the pool knows: queued, taken by a worker, logged, or being
\* submitted and not yet queued
AllTasks ==
    {work_queue[i] : i \in DOMAIN work_queue}
        \cup {worker[w].task : w \in Workers}
        \cup {exec_log[i] : i \in DOMAIN exec_log}
        \cup {submitter[s].task : s \in Submitters}

IdsIn(token) == {token[j] : j \in DOMAIN token} \ {Blank}
Accepted(tokens) == SelectSeq(tokens, LAMBDA token : IdsIn(token) # {})
AcceptedId(token) == CHOOSE c \in IdsIn(token) : TRUE

\* C22: a prefetch request submits one CRITICAL task per non-blank trimmed
\* identifier, in request order and named after the identifier; it answers
\* with the accepted identifiers once the last submit has returned, whatever
\* the state of the tasks; a request without identifiers submits nothing and
\* answers with the error
C22_PrefetchFireAndForget ==
    prefetch.state # "idle" =>
        LET want == Accepted(prefetch.video_ids)
            made == submitted - prefetch.base
        IN /\ made <= Len(want)
           /\ \A k \in 1..made :
                 \E task \in AllTasks :
                     /\ task.seq = prefetch.base + k
                     /\ task.task_id = AcceptedId(want[k])
                     /\ task.priority = CRITICAL
           /\ prefetch.state = "done" =>
                 /\ made = Len(want)
                 /\ prefetch.error = (want = <<>>)
                 /\ Len(prefetch.ret) = Len(want)
                 /\ \A k \in 1..Len(want) : prefetch.ret[k] = <<AcceptedId(want[k])>>

\* a request of three tokens, one of them blank and one padded, has been
\* answered while both of its tasks are still in the queue
C22_Witness ==
    /\ prefetch.state = "done"
    /\ Len(prefetch.video_ids) = 3
    /\ \E j \in 1..3 : prefetch.video_ids[j] = <<Blank>>
    /\ \E j \in 1..3 : Len(prefetch.video_ids[j]) = 3
    /\ Len(prefetch.ret) = 2
    /\ prefetch.ret[1] # prefetch.ret[2]
    /\ \A k \in 1..2 : Queued(prefetch.base + k)

\* ---------------------------------------------------------------- C23
\* the 'expire' parameters of a query that carry a value, in order
ExpireParams(query) == SelectSeq(query, LAMBDA q : q.key = "expire" /\ q.value # <<>>)
IsInteger(v) == \A j \in DOMAIN v : v[j] \in Digits

RECURSIVE Numeral(_, _)
Numeral(v, acc) == IF v = <<>> THEN acc ELSE Numeral(Tail(v), 10 * acc + Head(v))

\* C23: parse_expire_from_url returns the integer that the first value of
\* the URL's 'expire' parameter writes; without such a parameter, or with a
\* first value that is not an integer, it returns the time of the call plus
\* 3600; it raises nothing
C23_ExpiryComputation ==
    parsed.state = "done" =>
        /\ parsed.exc = ""
        /\ LET e == ExpireParams(parsed.url.query)
           IN IF e # <<>> /\ IsInteger(e[1].value)
              THEN parsed.value = Numeral(e[1].value, 0)
              ELSE parsed.value = parsed.time + DEFAULT_HORIZON

\* at a later time, a URL whose first 'expire' value is not an integer and
\* whose second is one has been given the default horizon
C23_Witness ==
    /\ parsed.state = "done"
    /\ parsed.time > 0
    /\ Len(parsed.url.query) = 2
    /\ \A j \in 1..2 : parsed.url.query[j].key = "expire"
    /\ ~IsInteger(parsed.url.query[1].value)
    /\ parsed.url.query[2].value = <<3, 6>>
    /\ parsed.value = parsed.time + DEFAULT_HORIZON

\* ---------------------------------------------------------------- C24
\* get_yt_audio answers with the stream of the upstream response
Streams(t) == pc[t] = "y999" /\ pc'[t] = "done" /\ ret'[t].body = "stream"

AfterAcquire == {"a30", "g259", "g260"}

\* C25: a caller of get_or_cache_audio_url that has acquired the lock while
\* the cache holds a live entry for its id finds a live entry at every step
\* up to line 261 and returns the entry from line 262; it never goes on to
\* the Resolver
C25_DoubleCheck ==
    [][\A t \in Threads :
          (op[t] = "resolve" /\ pc[t] \in AfterAcquire /\ LiveEntry(vid[t])) =>
              LET e == audio_url_cache[vid[t]]
              IN \/ pc'[t] \in AfterAcquire /\ LiveEntry(vid[t])'
                 \/ pc'[t] = "r34" /\ ret'[t] = Triple(262, e.url, e.expire, e.ctype)]_vars

\* ---------------------------------------------------------------- C26
\* the thread holds or waits on a TimedLock: lock is set at line 244 and
\* dropped when the call leaves
UsesLock(t) == op[t] = "resolve" /\ lock[t] # 0

\* C26: the threads that hold or wait on a lock for one id all use the same
\* TimedLock
C26_OneHandlePerId ==
    \A t1, t2 \in Threads :
        (UsesLock(t1) /\ UsesLock(t2) /\ vid[t1] = vid[t2]) => lock[t1] = lock[t2]

\* ---------------------------------------------------------------- C27
\* a thread is between the two lines of acquire (28 and 30) or of release
\* (34 and 35) of the TimedLock h
InsideTimedLock(h) == \E t \in Threads : lock[t] = h /\ pc[t] \in {"a30", "r35"}

\* C27: while no thread is inside acquire or release of a TimedLock, its
\* _acquire_time is set exactly when the lock is held
C27_TimestampIffHeld ==
    \A h \in Handles :
        ~InsideTimedLock(h) => ((locks[h].acquire_time # None) <=> (locks[h].owner # 0))

\* ---------------------------------------------------------------- C28
\* the extract_info of h does not return and h holds the TimedLock it took
StuckHolding(h) == pc[h] = "g276" /\ locks[lock[h]].owner = h

\* C28: while the Resolver call of the lock's holder never returns, every
\* call of get_or_cache_audio_url by another thread returns, a waiting one
\* by the timeout of the lock; a call that reaches line 244 when the stuck
\* handle is no longer registered does not take the stuck handle
C28_BoundedWaiting ==
    /\ \A t \in Others : (pc[t] # "idle") ~> (pc[t] = "idle")
    /\ [][\A t \in Others :
             (/\ StuckHolding(Holder)
              /\ audio_url_locks[vid[Holder]] # lock[Holder]
              /\ vid[t] = vid[Holder]
              /\ pc[t] = "g244" /\ pc'[t] = "g247") =>
                 lock'[t] # lock[Holder]]_vars

\* the holder is stuck on a handle that a timed-out caller has removed, and
\* that caller, in a later call, holds a new handle and is in the Resolver
C28_Witness ==
    /\ StuckHolding(Holder)
    /\ \E t \in Others :
          /\ vid[t] = vid[Holder]
          /\ pc[t] = "g276"
          /\ lock[t] # lock[Holder]
          /\ audio_url_locks[vid[t]] = lock[t]

\* ---------------------------------------------------------------- C29
\* C29: every entry get_or_cache_audio_url has written to audio_url_cache
\* has a URL
C29_EntriesHaveUrl ==
    \A v \in VideoIds :
        audio_url_cache[v].fmt = "tuple" => audio_url_cache[v].url # NoneUrl

\* ---------------------------------------------------------------- C30
\* get_yt_audio reaches session.get of line 984 with the URL and the expiry
\* it has in hand
IssuesUpstream(t) == op[t] = "stream" /\ pc[t] # "y984" /\ pc'[t] = "y984"

\* C30: when get_yt_audio issues the upstream request, the URL it sends is
\* not past its expiry
C30_UpstreamUrlNotExpired ==
    [][\A t \in Threads : IssuesUpstream(t) => now' < ret'[t].expire]_vars

\* ---------------------------------------------------------------- C31
\* the handle registered for v is free, or has been held for more than 30 s
FreeOrStale(v) ==
    /\ audio_url_locks[v] # 0
    /\ locks[audio_url_locks[v]].owner = 0 \/ StaleHeld(v)

\* C31: a sweep scans the whole registry and picks the handles that are free
\* or stale; a handle it removes from the registry is free or stale when it
\* is removed, so a handle held for 30 s or less stays registered
C31_SweepFrame ==
    [][\A t \in Threads, v \in VideoIds :
          /\ SweepScans(t) =>
                /\ pc'[t] = "c145"
                /\ FreeOrStale(v) <=> v \in to_remove'[t]
          /\ (SweepRemoves(t, v) /\ audio_url_locks'[v] # audio_url_locks[v]) =>
                FreeOrStale(v)]_vars

\* ---------------------------------------------------------------- C32
\* C32: a call of get_or_cache_audio_url that has returned has raised
\* nothing: its result is a triple or the failure result
C32_NoExceptionFromCoordinator ==
    \A t \in Threads :
        (op[t] = "resolve" /\ pc[t] = "done") => ret[t].exc = ""

\* ---------------------------------------------------------------- C33
\* C33: a get_yt_audio call that has returned has raised nothing: it
\* answers with the StreamingResponse or with an error body
C33_StreamNeverRaises ==
    \A t \in Threads :
        (op[t] = "stream" /\ pc[t] = "done") =>
            ret[t].exc = "" /\ ret[t].body \in {"stream", "json"}

\* the entry get_yt_audio found expired was gone at line 895 (a pool thread
\* deleted it first) and the request was answered with the error body
C33_Witness ==
    \E t \in Threads :
        /\ op[t] = "stream"
        /\ pc[t] = "done"
        /\ ret[t].site = 1027
        /\ ret[t].body = "json"

\* ---------------------------------------------------------------- C34
InExtract(t) == pc[t] \in {"x170", "x172", "x223"}
Descriptor(e) == <<e.kind, e.url, e.ctype>>

\* C34: with a live entry in video_info_cache, extract_video_info_fast
\* returns its descriptor and does not call ydl.extract_info; an entry is
\* written only with the non-empty descriptor extract_info has just
\* returned, and a call whose extract_info raises or returns nothing writes
\* no entry and returns no descriptor; no step of extract_video_info_fast
\* changes audio_url_cache or audio_url_failure_cache
C34_MetadataCache ==
    [][\A t \in Threads : \A v \in VideoIds :
          /\ (pc[t] = "x170" /\ pc'[t] # "x170" /\ InCache(video_info_cache, vid[t], now)) =>
                pc'[t] = "x172" /\ extract_info_calls' = extract_info_calls
          /\ (pc[t] = "x172" /\ pc'[t] # "x172" /\ InCache(video_info_cache, vid[t], now)) =>
                /\ pc'[t] = AfterInfo(t)
                /\ Descriptor(info'[t]) = Descriptor(video_info_cache[vid[t]])
          /\ (pc[t] = "x223" /\ pc'[t] # "x223") =>
                \/ /\ pc'[t] = AfterInfo(t)
                   /\ info'[t].kind \notin {"raise", "none"}
                   /\ Descriptor(video_info_cache'[vid[t]]) = Descriptor(info'[t])
                   /\ InCache(video_info_cache', vid[t], now)
                \/ /\ pc'[t] = "done"
                   /\ ret'[t].site = NoInfoSite(t)
                   /\ video_info_cache' = video_info_cache
          /\ (InExtract(t) /\ pc'[t] # pc[t]) =>
                /\ audio_url_cache' = audio_url_cache
                /\ audio_url_failure_cache' = audio_url_failure_cache
          /\ (InCache(video_info_cache', v, now') /\
                 Descriptor(video_info_cache'[v]) # Descriptor(video_info_cache[v])) =>
                \E u \in Threads : pc[u] = "x223" /\ vid[u] = v /\ pc'[u] = AfterInfo(u)]_vars

\* a call has found the descriptor an earlier call cached and is about to
\* return it: ydl.extract_info was called once for the id
C34_Witness ==
    \E t \in Threads :
        /\ pc[t] = "x172"
        /\ InCache(video_info_cache, vid[t], now)
        /\ extract_info_calls[vid[t]] = 1

\* ---------------------------------------------------------------- C35
\* the PriorityTask objects created so far
CreatedTasks == {task \in AllTasks : task.seq # 0}

\* C35: PriorityTask.__lt__ is a strict total order on the tasks created: no
\* task is less than itself, a < b and b < c give a < c, the order follows
\* priority and then created_at, and of two distinct tasks exactly one is
\* less than the other, two tasks of one priority created at the same
\* instant included.
C35_StrictTotalOrder ==
    \A a, b \in CreatedTasks :
        /\ ~PriorityTask_lt(a, a)
        /\ \A c \in CreatedTasks :
              PriorityTask_lt(a, b) /\ PriorityTask_lt(b, c) => PriorityTask_lt(a, c)
        /\ PriorityTask_lt(a, b) <=>
              \/ a.priority < b.priority
              \/ a.priority = b.priority /\ a.created_at < b.created_at
        /\ a # b => (PriorityTask_lt(a, b) <=> ~PriorityTask_lt(b, a))

\* ---------------------------------------------------------------- C36
\* C36: every upstream connection a stream request opens is released in the
\* end, whether the body is read to its end, the upstream fails or the
\* client leaves; and once the client has left no further chunk is read
\* from it.
C36_UpstreamReleased ==
    /\ \A t \in Threads : (response[t].conn = "open") ~> (response[t].conn # "open")
    /\ [][\A t \in Threads :
              response[t].client = "gone" /\ response'[t].conn = "open"
                  => response'[t].chunks = response[t].chunks]_vars

\* ---------------------------------------------------------------- C37
\* C37: a live entry of audio_url_cache is never overwritten: while an id
\* has an entry that is in the cache and not expired, a step changes the
\* entry only by dropping it, never by writing another (url, expire) over
\* it, whatever the interleaving of get_or_cache_audio_url and get_yt_audio
\* with lock timeouts and sweeps.
C37_LiveEntryNotOverwritten ==
    [][\A v \in VideoIds :
          LiveEntry(v) /\ audio_url_cache'[v] # audio_url_cache[v]
              => audio_url_cache'[v] = NoEntry]_vars

\* ---------------------------------------------------------------- C38
\* C38: no id has at once a live entry in audio_url_cache and an entry in
\* audio_url_failure_cache, so no call of get_or_cache_audio_url is answered
\* (None, None, None) from the failure check of line 237 while the cached
\* URL of its id is fresh.
C38_SuccessExcludesFailure ==
    /\ \A v \in VideoIds :
          ~(LiveEntry(v) /\ InFailureCache(audio_url_failure_cache, v, now))
    /\ \A t \in Threads :
          op[t] = "resolve" /\ pc[t] = "done" /\ ret[t].site = 237 => ~LiveEntry(vid[t])

\* ---------------------------------------------------------------- C39
\* C39: when the shutdown of lifespan is complete, the priority pool and
\* the two legacy pools have been shut down, the lock registry has been
\* swept, and audio_url_cache, video_info_cache and audio_url_failure_cache
\* are empty.
C39_ShutdownSequence ==
    lifespan.state = "complete" =>
        /\ lifespan.priority_pool = "shutdown"
        /\ lifespan.prefetch_thread_pool = "shutdown"
        /\ lifespan.download_thread_pool = "shutdown"
        /\ lifespan.swept
        /\ \A k \in CacheKeys : audio_url_cache[k] = NoEntry
        /\ \A v \in VideoIds : video_info_cache[v] = NoInfo /\ audio_url_failure_cache[v] = 0

\* ---------------------------------------------------------------- C40
\* the tasks whose submit has returned and whose _execute_task has not left
\* its finally
Unfinished ==
    {work_queue[i] : i \in DOMAIN work_queue}
        \cup {worker[w].task : w \in {x \in Workers : worker[x].state # "idle"}}

AllFinished ==
    /\ Unfinished = {}
    /\ \A s \in Submitters : submitter[s].state = "idle"

\* C40: running_tasks holds exactly the unfinished tasks: once every
\* submitted task has finished it is empty, and a task that submit has
\* returned and that has not finished is found under its task_id with its
\* own future, whatever the interleaving of submit and _execute_task and
\* also when two tasks have the same task_id.
C40_RunningTasksExact ==
    /\ AllFinished => \A i \in TaskIds : running_tasks[i] = 0
    /\ \A task \in Unfinished :
          (\A s \in Submitters : submitter[s].task # task)
              => running_tasks[task.task_id] = task.seq

====
